---- MODULE Spec2Model ----
(***************************************************************************)
(* A model of sukkiri: the allowlist, the category scanners, the cleaner   *)
(* (delete_items) and the App state machine driven by run_app.             *)
(*                                                                         *)
(* Paths are modelled by their string form (PathBuf::to_string_lossy of a  *)
(* valid UTF-8 path); strings are TLA+ strings, compared and cut with Len, *)
(* SubSeq and \o.                                                          *)
(***************************************************************************)
EXTENDS Integers, Sequences, FiniteSets, TLC

VARIABLES
    \* ---- App (src/ui/app.rs) and the coordinating loop (src/ui/mod.rs)
    results,            \* Vec<ScanResult>
    list_state,         \* ListState::selected(): <<>> for None, <<i>> for Some(i)
    state,              \* AppState, [tag, msg]
    cleaning_rx,        \* Option<Receiver>: "None" | "Some"
    scan_rx,            \* Option<Receiver>: "None" | "Some"
    scan_progress,      \* HashMap<CategoryType, ScanProgress>
    total_categories,   \* usize
    loop_pc,            \* position of run_app: "main" | "tick" | "poll" | "returned"
    \* ---- channels and worker threads
    scan_chan,          \* messages sent on the scan channel, not yet received
    cleaning_chan,      \* messages sent on the cleaning channel, not yet received
    task,               \* per category: the scan thread spawned by start_scan
    cleaner,            \* the thread running delete_items
    \* ---- the environment
    allowlist,          \* Allowlist.rules
    fs,                 \* the filesystem: path -> [kind, size]
    locked,             \* entries the process is not permitted to remove
    docker,             \* the container runtime: [available, lines]
    \* ---- direct calls of the pure parts (unit-test style harnesses)
    al,                 \* Allowlist harness: [rules, path, answer, pc]
    sc                  \* scanner harness: [variant, result, pc]

vars == <<results, list_state, state, cleaning_rx, scan_rx, scan_progress,
          total_categories, loop_pc, scan_chan, cleaning_chan, task, cleaner,
          allowlist, fs, locked, docker, al, sc>>

appVars == <<results, list_state, state, cleaning_rx, scan_rx, scan_progress,
             total_categories, loop_pc>>
chanVars == <<scan_chan, cleaning_chan>>
envVars == <<allowlist, fs, locked, docker>>

-----------------------------------------------------------------------------
(* Strings *)

\* str::starts_with
StartsWith(s, prefix) ==
    Len(prefix) <= Len(s) /\ SubSeq(s, 1, Len(prefix)) = prefix

\* str::contains
Contains(s, sub) ==
    \E i \in 1..(Len(s) - Len(sub) + 1) : SubSeq(s, i, i + Len(sub) - 1) = sub

\* A path is written as a string in which InvalidByte stands for a byte that
\* is no part of a valid UTF-8 sequence; in a String it cannot occur.
InvalidByte == "^"

\* U+FFFD REPLACEMENT CHARACTER, as it stands in a String
ReplacementChar == "~"

RECURSIVE ToStringLossyFrom(_, _)
\* the text of the bytes of p from position k on
ToStringLossyFrom(p, k) ==
    IF k > Len(p) THEN ""
    ELSE (IF SubSeq(p, k, k) = InvalidByte THEN ReplacementChar ELSE SubSeq(p, k, k))
            \o ToStringLossyFrom(p, k + 1)

\* Path::to_string_lossy: every invalid byte becomes U+FFFD
ToStringLossy(p) == ToStringLossyFrom(p, 1)

\* Path::join of a relative component
Join(dir, name) == dir \o "/" \o name

\* the elements of a sequence
Range(seq) == {seq[i] : i \in 1..Len(seq)}

\* all sequences over S of length at most n
SeqsUpTo(S, n) == UNION {[1..k -> S] : k \in 0..n}

-----------------------------------------------------------------------------
(* Allowlist (src/allowlist.rs) *)

\* A mutation of is_allowed that matches only at path-separator boundaries.
IsAllowedSegmentwise(rules, path) ==
    LET path_str == ToStringLossy(path)
    IN  \E i \in 1..Len(rules) :
           \/ path_str = rules[i]
           \/ StartsWith(path_str, rules[i] \o "/")

RECURSIVE IsAllowedFrom(_, _)
\* allowlist.rs:43-54: the loop over the rules; the first rule that equals
\* path_str or is a prefix of it returns true, the end of the loop false
IsAllowedFrom(rules, path_str) ==
    IF rules = <<>> THEN FALSE
    ELSE IF path_str = Head(rules) \/ StartsWith(path_str, Head(rules)) THEN TRUE
    ELSE IsAllowedFrom(Tail(rules), path_str)

\* allowlist.rs:40-55 Allowlist::is_allowed
IsAllowed(rules, path) == IsAllowedFrom(rules, ToStringLossy(path))

\* Allowlist::new
AllowlistNew(rules) == rules

-----------------------------------------------------------------------------
(* Paths and the filesystem *)

\* the character of s at position i
CharAt(s, i) == SubSeq(s, i, i)

\* position of the last '/' of s, 0 when it has none
LastSlash(s) ==
    IF \E i \in 1..Len(s) : CharAt(s, i) = "/"
    THEN CHOOSE i \in 1..Len(s) :
            /\ CharAt(s, i) = "/"
            /\ \A j \in (i + 1)..Len(s) : CharAt(s, j) # "/"
    ELSE 0

\* position of the first '/' of s, 0 when it has none
FirstSlash(s) ==
    IF \E i \in 1..Len(s) : CharAt(s, i) = "/"
    THEN CHOOSE i \in 1..Len(s) :
            /\ CharAt(s, i) = "/"
            /\ \A j \in 1..(i - 1) : CharAt(s, j) # "/"
    ELSE 0

\* Path::parent and Path::file_name
Parent(p) == SubSeq(p, 1, LastSlash(p) - 1)
FileName(p) == SubSeq(p, LastSlash(p) + 1, Len(p))

\* p is root or lies in the directory subtree of root
IsUnder(p, root) == p = root \/ StartsWith(p, root \o "/")

\* Path::exists, Path::is_dir
Exists(f, p) == p \in DOMAIN f
IsDir(f, p) == p \in DOMAIN f /\ f[p].kind = "dir"

\* the entries of the subtree of p that exist
Subtree(f, p) == {q \in DOMAIN f : IsUnder(q, p)}

\* q is an immediate child of dir: dir, a separator, and one more component
IsChildOf(q, dir) ==
    /\ Len(q) > Len(dir) + 1
    /\ SubSeq(q, 1, Len(dir) + 1) = dir \o "/"
    /\ \A k \in (Len(dir) + 2)..Len(q) : CharAt(q, k) # "/"

\* the immediate children of dir (what fs::read_dir lists)
Children(f, dir) == {q \in DOMAIN f : IsChildOf(q, dir)}

\* the filesystem without the entries of S
Without(f, S) == [q \in (DOMAIN f) \ S |-> f[q]]

\* dirs::home_dir
Home == "/Users/x"

\* An entry of the disk
Dir == [kind |-> "dir", size |-> 0]
File(n) == [kind |-> "file", size |-> n]

-----------------------------------------------------------------------------
(* Cleaner (src/cleaner.rs) *)

DockerScheme == "docker://"

\* a mutation of the scheme test: every item is taken for a filesystem path
IsDockerPathNever(path) == FALSE

\* cleaner.rs:15-16  path_str.starts_with("docker://")
IsDockerPath(path) == StartsWith(ToStringLossy(path), DockerScheme)

\* a mutation of the id extraction: the part before the last '/'
DockerIdOfLastSlash(path) ==
    LET path_str == ToStringLossy(path)
        rest == SubSeq(path_str, Len(DockerScheme) + 1, Len(path_str))
        k == LastSlash(rest)
    IN  IF k = 0 THEN rest ELSE SubSeq(rest, 1, k - 1)

\* cleaner.rs:15-20  strip_prefix("docker://"), then the part before the first '/'
DockerIdOf(path) ==
    LET path_str == ToStringLossy(path)
        rest == SubSeq(path_str, Len(DockerScheme) + 1, Len(path_str))
        k == FirstSlash(rest)
    IN  IF k = 0 THEN rest ELSE SubSeq(rest, 1, k - 1)

RECURSIVE CollectDockerIds(_)
\* cleaner.rs:14-26, the docker_ids the loop collects, in input order
CollectDockerIds(items) ==
    IF items = <<>> THEN <<>>
    ELSE LET rest == CollectDockerIds(Tail(items))
         IN  IF IsDockerPath(Head(items).path)
             THEN <<DockerIdOf(Head(items).path)>> \o rest
             ELSE rest

RECURSIVE CollectFilePaths(_)
\* cleaner.rs:14-26, the file_paths the loop collects, in input order
CollectFilePaths(items) ==
    IF items = <<>> THEN <<>>
    ELSE LET rest == CollectFilePaths(Tail(items))
         IN  IF IsDockerPath(Head(items).path)
             THEN rest
             ELSE <<Head(items).path>> \o rest

\* what "docker rmi <id>" can print when it exits non-zero
RmiFailureOutputs ==
    { [stdout |-> "", stderr |-> "Error response from daemon: conflict"],
      [stdout |-> "Untagged: sha256:0", stderr |-> "Error: No such image"] }

\* cleaner.rs:37-39
RmiFailedMessage(id, out) ==
    "Failed to remove Docker image " \o id \o ".\nStdout: " \o out.stdout
        \o "\nStderr: " \o out.stderr

\* cleaner.rs:42
RmiSpawnFailedMessage == "Failed to execute docker rmi: No such file or directory"

Ok == [ok |-> TRUE, msg |-> ""]
Err(msg) == [ok |-> FALSE, msg |-> msg]

\* What std::fs::remove_file(p) can leave: the file is gone, or (the entry is
\* missing, is a directory, or may not be removed) nothing changed.
RemoveFileOutcomes(f, lk, p) ==
    IF Exists(f, p) /\ ~IsDir(f, p) /\ p \notin lk
    THEN {Without(f, {p})}
    ELSE {f}

\* a mutation of the directory removal: std::fs::remove_dir, which removes
\* an empty directory only
RemoveDirOutcomes(f, lk, p) ==
    IF Subtree(f, p) = {p} /\ p \notin lk THEN {Without(f, {p})} ELSE {f}

\* What std::fs::remove_dir_all(p) can leave. A locked entry is never removed,
\* and so neither is a directory above it; remove_dir_all stops at its first
\* error, so what it removed before is any set of unlocked entries closed
\* under descendants.
RemoveDirAllOutcomes(f, lk, p) ==
    LET sub == Subtree(f, p)
        pinned == {q \in sub : \E l \in lk \cap sub : IsUnder(l, q)}
    IN  IF pinned = {} THEN {Without(f, sub)}
        ELSE { Without(f, S) : S \in
                 { T \in SUBSET (sub \ pinned) :
                     \A q \in T : \A d \in sub : IsUnder(d, q) => d \in T } }

\* the cleaner thread before it is spawned
CleanerIdle ==
    [pc |-> "idle", items |-> <<>>, docker_ids |-> <<>>, file_paths |-> <<>>,
     i |-> 0, result |-> Ok, rmi_calls |-> <<>>, rmi_removed |-> <<>>,
     rmi_failed |-> <<>>, fs_calls |-> <<>>]

\* the cleaner thread at the call of delete_items(items)
CleanerCalled(items) == [CleanerIdle EXCEPT !.pc = "called", !.items = items]

\* CleanerBegin changed to report the empty input as an error
CleanerBeginRejectsEmpty ==
    /\ cleaner.pc = "called"
    /\ cleaner' =
         IF cleaner.items = <<>>
         THEN [cleaner EXCEPT !.pc = "returned", !.result = Err("nothing to delete")]
         ELSE LET ids == CollectDockerIds(cleaner.items)
                  paths == CollectFilePaths(cleaner.items)
              IN  [cleaner EXCEPT
                     !.docker_ids = ids,
                     !.file_paths = paths,
                     !.i = 1,
                     !.pc = IF ids # <<>> THEN "rmi"
                            ELSE IF paths # <<>> THEN "fs" ELSE "returned",
                     !.result = Ok]
    /\ UNCHANGED <<appVars, chanVars, task, envVars, al, sc>>

\* cleaner.rs:6-26: the empty-input return, then the partition of the items
CleanerBegin ==
    /\ cleaner.pc = "called"
    /\ cleaner' =
         IF cleaner.items = <<>>
         THEN [cleaner EXCEPT !.pc = "returned", !.result = Ok]
         ELSE LET ids == CollectDockerIds(cleaner.items)
                  paths == CollectFilePaths(cleaner.items)
              IN  [cleaner EXCEPT
                     !.docker_ids = ids,
                     !.file_paths = paths,
                     !.i = 1,
                     !.pc = IF ids # <<>> THEN "rmi"
                            ELSE IF paths # <<>> THEN "fs" ELSE "returned",
                     !.result = Ok]
    /\ UNCHANGED <<appVars, chanVars, task, envVars, al, sc>>

\* CleanerRmi changed to drop a non-zero exit the way the file loop drops errors
CleanerRmiSwallowsFailure ==
    /\ cleaner.pc = "rmi"
    /\ LET id == cleaner.docker_ids[cleaner.i]
           called == [cleaner EXCEPT !.rmi_calls = Append(@, id)]
           present == \E k \in 1..Len(docker.images) : docker.images[k].id = id
           onward == [called EXCEPT
                        !.i = IF cleaner.i < Len(cleaner.docker_ids)
                              THEN @ + 1 ELSE 1,
                        !.pc = IF cleaner.i < Len(cleaner.docker_ids) THEN "rmi"
                               ELSE IF cleaner.file_paths # <<>> THEN "fs"
                               ELSE "returned"]
       IN  \/ /\ docker.available /\ present
              /\ docker' = [docker EXCEPT !.images =
                              SelectSeq(@, LAMBDA im : im.id # id)]
              /\ cleaner' = [onward EXCEPT !.rmi_removed = Append(@, id)]
           \/ /\ docker.available
              /\ \E out \in RmiFailureOutputs :
                    cleaner' = [onward EXCEPT !.rmi_failed = <<out>>]
              /\ UNCHANGED docker
           \/ /\ ~docker.available
              /\ cleaner' = [called EXCEPT
                               !.pc = "returned",
                               !.result = Err(RmiSpawnFailedMessage)]
              /\ UNCHANGED docker
    /\ UNCHANGED <<appVars, chanVars, task, allowlist, fs, locked, al, sc>>

\* cleaner.rs:29-44: one turn of the image-removal loop
CleanerRmi ==
    /\ cleaner.pc = "rmi"
    /\ LET id == cleaner.docker_ids[cleaner.i]
           called == [cleaner EXCEPT !.rmi_calls = Append(@, id)]
           present == \E k \in 1..Len(docker.images) : docker.images[k].id = id
       IN  \/ \* Ok(out), out.status.success()
              /\ docker.available /\ present
              /\ docker' = [docker EXCEPT !.images =
                              SelectSeq(@, LAMBDA im : im.id # id)]
              /\ cleaner' =
                   [called EXCEPT
                      !.rmi_removed = Append(@, id),
                      !.i = IF cleaner.i < Len(cleaner.docker_ids)
                             THEN @ + 1 ELSE 1,
                      !.pc = IF cleaner.i < Len(cleaner.docker_ids) THEN "rmi"
                             ELSE IF cleaner.file_paths # <<>> THEN "fs"
                             ELSE "returned"]
           \/ \* Ok(out), a non-zero exit status
              /\ docker.available
              /\ \E out \in RmiFailureOutputs :
                    cleaner' = [called EXCEPT
                                  !.pc = "returned",
                                  !.rmi_failed = <<out>>,
                                  !.result = Err(RmiFailedMessage(id, out))]
              /\ UNCHANGED docker
           \/ \* Err(e): the command could not be run
              /\ ~docker.available
              /\ cleaner' = [called EXCEPT
                               !.pc = "returned",
                               !.result = Err(RmiSpawnFailedMessage)]
              /\ UNCHANGED docker
    /\ UNCHANGED <<appVars, chanVars, task, allowlist, fs, locked, al, sc>>

\* CleanerRemove changed to return the error of a removal that failed
CleanerRemovePropagatesError ==
    /\ cleaner.pc = "fs"
    /\ LET p == cleaner.file_paths[cleaner.i]
       IN  \E f \in (IF IsDir(fs, p)
                     THEN RemoveDirAllOutcomes(fs, locked, p)
                     ELSE RemoveFileOutcomes(fs, locked, p)) :
              /\ fs' = f
              /\ cleaner' =
                   IF p \in DOMAIN f
                   THEN [cleaner EXCEPT
                           !.fs_calls = Append(@, p),
                           !.pc = "returned",
                           !.result = Err("Permission denied")]
                   ELSE [cleaner EXCEPT
                           !.fs_calls = Append(@, p),
                           !.i = @ + 1,
                           !.pc = IF cleaner.i < Len(cleaner.file_paths) THEN "fs"
                                  ELSE "returned"]
    /\ UNCHANGED <<appVars, chanVars, task, allowlist, locked, docker, al, sc>>

\* cleaner.rs:47-55: one turn of the file loop; the outcome of the removal
\* is dropped (let _ =)
CleanerRemove ==
    /\ cleaner.pc = "fs"
    /\ LET p == cleaner.file_paths[cleaner.i]
       IN  /\ \E f \in (IF IsDir(fs, p)
                       THEN RemoveDirAllOutcomes(fs, locked, p)
                       ELSE RemoveFileOutcomes(fs, locked, p)) : fs' = f
           /\ cleaner' =
                [cleaner EXCEPT
                   !.fs_calls = Append(@, p),
                   !.i = @ + 1,
                   !.pc = IF cleaner.i < Len(cleaner.file_paths) THEN "fs"
                          ELSE "returned"]
    /\ UNCHANGED <<appVars, chanVars, task, allowlist, locked, docker, al, sc>>

-----------------------------------------------------------------------------
(* Scanners (src/scanner/utils.rs, src/scanner/mod.rs, src/scanner/*.rs) *)

RECURSIVE SumOver(_, _)
\* the sum of g[x] over the finite set S
SumOver(S, g) ==
    IF S = {} THEN 0
    ELSE LET x == CHOOSE y \in S : TRUE IN g[x] + SumOver(S \ {x}, g)

RECURSIVE SumSizes(_)
\* items.iter().map(|i| i.size).sum()
SumSizes(items) ==
    IF items = <<>> THEN 0 ELSE Head(items).size + SumSizes(Tail(items))

RECURSIVE InsertBySizeDesc(_, _)
\* x put into s, already ordered by size descending, behind every element that
\* is not smaller (the sort is stable)
InsertBySizeDesc(s, x) ==
    IF s = <<>> THEN <<x>>
    ELSE IF Head(s).size >= x.size
         THEN <<Head(s)>> \o InsertBySizeDesc(Tail(s), x)
         ELSE <<x>> \o s

RECURSIVE SortBySizeDescFrom(_, _)
SortBySizeDescFrom(done, todo) ==
    IF todo = <<>> THEN done
    ELSE SortBySizeDescFrom(InsertBySizeDesc(done, Head(todo)), Tail(todo))

\* a mutation of the sort: the items stay in the order they were collected in
SortBySizeDescMissing(items) == items

\* items.sort_by(|a, b| b.size.cmp(&a.size))
SortBySizeDesc(items) == SortBySizeDescFrom(<<>>, items)

\* a mutation of calculate_item_stats: only the entry itself is looked at,
\* its subtree is not walked
CalculateItemStatsShallow(f, path) ==
    [path |-> path, size |-> f[path].size]

\* utils.rs:71-105 calculate_item_stats: the sizes of the regular files of the
\* subtree of path, summed
CalculateItemStats(f, path) ==
    [path |-> path,
     size |-> SumOver({q \in Subtree(f, path) : f[q].kind = "file"},
                      [q \in DOMAIN f |-> f[q].size])]

\* a mutation of the listing: a path that exists and cannot be listed is
\* taken for its own single entry
ReadDirOrSelf(f, dir, ord) ==
    IF IsDir(f, dir)
    THEN SelectSeq(ord, LAMBDA q : q \in DOMAIN f /\ IsChildOf(q, dir))
    ELSE IF Exists(f, dir) THEN <<dir>> ELSE <<>>

\* fs::read_dir(dir): the children of dir, in the order the directory lists
\* them; ord is that order, a sequence of every path of the disk. A missing
\* path or a file lists nothing (Err(_) => vec![]).
ReadDir(f, dir, ord) ==
    IF IsDir(f, dir)
    THEN SelectSeq(ord, LAMBDA q : q \in DOMAIN f /\ IsChildOf(q, dir))
    ELSE <<>>

\* f applied to every element of a sequence
MapSeq(s, Op(_)) == [k \in 1..Len(s) |-> Op(s[k])]

\* a mutation of scan_path: the allowlist is not consulted
ScanPathUnfiltered(f, rules, target_path, ord) ==
    LET entries == ReadDir(f, target_path, ord)
        items == MapSeq(entries, LAMBDA q : CalculateItemStats(f, q))
    IN  [total_size |-> SumSizes(items),
         items |-> SortBySizeDesc(items),
         callbacks |-> Len(entries)]

\* utils.rs:10-38 scan_path; callbacks counts the calls of progress_cb
ScanPath(f, rules, target_path, ord) ==
    IF ~Exists(f, target_path)
    THEN [total_size |-> 0, items |-> <<>>, callbacks |-> 0]
    ELSE LET entries == ReadDir(f, target_path, ord)
             kept == SelectSeq(entries, LAMBDA q : ~IsAllowed(rules, q))
             items == MapSeq(kept, LAMBDA q : CalculateItemStats(f, q))
         IN  [total_size |-> SumSizes(items),
              items |-> SortBySizeDesc(items),
              callbacks |-> Len(kept)]

\* a ScanResult; description and root_path are display text and left out
ScanResult(category, items) ==
    [category |-> category,
     total_size |-> SumSizes(items),
     items |-> items,
     is_selected |-> FALSE]

RECURSIVE ScanPaths(_, _, _, _)
\* mod.rs:36-41: scan_path of each root, the items appended root after root
ScanPaths(f, rules, paths, ord) ==
    IF paths = <<>> THEN [items |-> <<>>, callbacks |-> 0]
    ELSE LET one == ScanPath(f, rules, Head(paths), ord)
             rest == ScanPaths(f, rules, Tail(paths), ord)
         IN  [items |-> one.items \o rest.items,
              callbacks |-> one.callbacks + rest.callbacks]

\* mod.rs:35-62 PathScanner::scan
PathScannerScan(category, f, rules, paths, ord) ==
    LET all == ScanPaths(f, rules, paths, ord)
    IN  [result |-> ScanResult(category, all.items), callbacks |-> all.callbacks]

(* Container images (src/scanner/docker.rs) *)

Digits == "0123456789"
LowerLetters == "abcdefghijklmnopqrstuvwxyz"
UpperLetters == "ABCDEFGHIJKLMNOPQRSTUVWXYZ"

IsDigit(c) == \E d \in 1..10 : CharAt(Digits, d) = c
DigitValue(c) == (CHOOSE d \in 1..10 : CharAt(Digits, d) = c) - 1

\* char::to_uppercase on ASCII
UpperChar(c) ==
    IF \E k \in 1..26 : CharAt(LowerLetters, k) = c
    THEN CharAt(UpperLetters, CHOOSE k \in 1..26 : CharAt(LowerLetters, k) = c)
    ELSE c

RECURSIVE ToUppercase(_)
ToUppercase(s) ==
    IF s = "" THEN "" ELSE UpperChar(CharAt(s, 1)) \o ToUppercase(SubSeq(s, 2, Len(s)))

RECURSIVE Trim(_)
\* str::trim for blanks
Trim(s) ==
    IF s = "" THEN ""
    ELSE IF CharAt(s, 1) = " " THEN Trim(SubSeq(s, 2, Len(s)))
    ELSE IF CharAt(s, Len(s)) = " " THEN Trim(SubSeq(s, 1, Len(s) - 1))
    ELSE s

EndsWith(s, suffix) ==
    Len(suffix) <= Len(s) /\ SubSeq(s, Len(s) - Len(suffix) + 1, Len(s)) = suffix

\* str::strip_suffix, for a suffix s ends with
StripSuffix(s, suffix) == SubSeq(s, 1, Len(s) - Len(suffix))

AllDigits(s) == s # "" /\ \A k \in 1..Len(s) : IsDigit(CharAt(s, k))

RECURSIVE DigitsValue(_)
\* the number a string of digits writes
DigitsValue(s) ==
    IF s = "" THEN 0
    ELSE 10 * DigitsValue(SubSeq(s, 1, Len(s) - 1)) + DigitValue(CharAt(s, Len(s)))

RECURSIVE Pow(_, _)
Pow(b, e) == IF e = 0 THEN 1 ELSE b * Pow(b, e - 1)

\* parse::<u64>() of plain digits (with Rust's optional leading '+'); -1 for Err
ParseU64(s) ==
    LET body == IF s # "" /\ CharAt(s, 1) = "+" THEN SubSeq(s, 2, Len(s)) ELSE s
    IN  IF AllDigits(body) THEN DigitsValue(body) ELSE -1

\* parse::<f64>().map(|v| (v * mult) as u64) for the decimal notations
\* digits, digits.digits, digits. and .digits; -1 for a string outside them
ParseF64Times(s, mult) ==
    LET dot == IF \E k \in 1..Len(s) : CharAt(s, k) = "."
               THEN CHOOSE k \in 1..Len(s) : CharAt(s, k) = "." ELSE 0
        int == IF dot = 0 THEN s ELSE SubSeq(s, 1, dot - 1)
        frac == IF dot = 0 THEN "" ELSE SubSeq(s, dot + 1, Len(s))
        good == /\ int \o frac # ""
                /\ \A k \in 1..Len(int) : IsDigit(CharAt(int, k))
                /\ \A k \in 1..Len(frac) : IsDigit(CharAt(frac, k))
        den == Pow(10, Len(frac))
    IN  IF good
        THEN DigitsValue(int) * mult
               + DigitsValue(frac) * (mult \div den)
               + (DigitsValue(frac) * (mult % den)) \div den
        ELSE -1

\* unwrap_or(0)
UnwrapOr0(v) == IF v < 0 THEN 0 ELSE v

\* docker.rs:95-118 parse_docker_size
ParseDockerSize(size_str) ==
    LET s == ToUppercase(Trim(size_str))
    IN  IF EndsWith(s, "GB") THEN UnwrapOr0(ParseF64Times(StripSuffix(s, "GB"), 1073741824))
        ELSE IF EndsWith(s, "MB") THEN UnwrapOr0(ParseF64Times(StripSuffix(s, "MB"), 1048576))
        ELSE IF EndsWith(s, "KB") THEN UnwrapOr0(ParseF64Times(StripSuffix(s, "KB"), 1024))
        ELSE IF EndsWith(s, "B") THEN UnwrapOr0(ParseU64(StripSuffix(s, "B")))
        ELSE 0

\* docker.rs:42-93 scan_docker_unused_images_impl: nothing when the command
\* cannot be run; else one item per listed image, in listing order, with the
\* synthetic path docker://<id>/<name>
ScanDockerUnusedImagesImpl(d) ==
    IF ~d.available THEN <<>>
    ELSE MapSeq(d.images, LAMBDA im :
            [path |-> "docker://" \o im.id \o "/" \o im.name,
             size |-> ParseDockerSize(im.size)])

\* docker.rs:19-39 DockerScanner::scan
DockerScannerScan(d, rules) ==
    LET found == ScanDockerUnusedImagesImpl(d)
        items == SelectSeq(found, LAMBDA i : ~IsAllowed(rules, i.path))
    IN  [result |-> ScanResult("DockerImages", items), callbacks |-> Len(found)]

(* The recursive name search (src/scanner/utils.rs, src/scanner/dev.rs) *)

\* constants.rs
PROJECTS_DIR == "Projects"
NODE_MODULES == "node_modules"

\* WalkDir::max_depth of scan_recursive_for_target
WalkMaxDepth == 5

\* the number of components of q below root
DepthBelow(q, root) ==
    Cardinality({k \in (Len(root) + 1)..Len(q) : CharAt(q, k) = "/"})

\* some component of q below root starts with '.'
HiddenBelow(q, root) ==
    \E k \in (Len(root) + 1)..(Len(q) - 1) :
        CharAt(q, k) = "/" /\ CharAt(q, k + 1) = "."

\* a mutation of the walk: hidden directories are entered like the others
WalkVisibleHiddenToo(f, root) ==
    {q \in Subtree(f, root) : DepthBelow(q, root) <= WalkMaxDepth}

\* what WalkDir::new(root).skip_hidden(true).max_depth(5) yields
WalkVisible(f, root) ==
    {q \in Subtree(f, root) :
        DepthBelow(q, root) <= WalkMaxDepth /\ ~HiddenBelow(q, root)}

\* utils.rs:41-69 scan_recursive_for_target
ScanRecursiveForTarget(f, rules, root_path, target_name, ord) ==
    LET walked == WalkVisible(f, root_path)
        found_paths ==
            SelectSeq(ord, LAMBDA q :
                /\ q \in walked
                /\ IsDir(f, q)
                /\ FileName(q) = target_name
                /\ ~IsAllowed(rules, q))
        items == MapSeq(found_paths, LAMBDA q : CalculateItemStats(f, q))
    IN  [items |-> SortBySizeDesc(items), callbacks |-> Len(found_paths)]

\* dev.rs:48-64 NodeModulesScanner::scan
NodeModulesScannerScan(f, rules, ord) ==
    LET path == Join(Home, PROJECTS_DIR)
        found == IF Exists(f, path)
                 THEN ScanRecursiveForTarget(f, rules, path, NODE_MODULES, ord)
                 ELSE [items |-> <<>>, callbacks |-> 0]
    IN  [result |-> ScanResult("NodeModules", found.items),
         callbacks |-> found.callbacks]

-----------------------------------------------------------------------------
(* The environment the model runs in *)

\* constants.rs
DOWNLOADS_DIR == "Downloads"

Downloads == Join(Home, DOWNLOADS_DIR)

\* The disk at start.
Disk ==
    (Downloads :> Dir)
    @@ (Join(Downloads, "Keep") :> Dir)
    @@ (Join(Join(Downloads, "Keep"), "a.bin") :> File(2))
    @@ (Join(Downloads, "KeepExtra") :> File(1))
    @@ (Join(Downloads, "old") :> Dir)
    @@ (Join(Join(Downloads, "old"), "Secret") :> File(3))

\* The dangling images of the container runtime at start:
\* what "docker images" prints as {{.ID}}|{{.Size}}|{{.Repository}}:{{.Tag}};
\* the second lost its tag to a rebuild and still shows its repository
DockerImages ==
    << [id |-> "0a1b", size |-> "2B", name |-> "<none>:<none>"],
       [id |-> "9f8e", size |-> "4B", name |-> "org/app:<none>"] >>

DockerRunning == [available |-> TRUE, images |-> DockerImages]
DockerMissing == [available |-> FALSE, images |-> <<>>]

\* the sets of entries the process may not remove
LockChoices ==
    { {}, {Join(Join(Downloads, "Keep"), "a.bin")}, {Join(Downloads, "KeepExtra")} }

\* the parts of the state a harness leaves alone
AppIdle ==
    /\ results = <<>>
    /\ list_state = <<>>
    /\ state = [tag |-> "Scanning", msg |-> ""]
    /\ cleaning_rx = "None"
    /\ scan_rx = "None"
    /\ scan_progress = <<>>
    /\ total_categories = 0
    /\ loop_pc = "off"
    /\ scan_chan = <<>>
    /\ cleaning_chan = <<>>
    /\ task = <<>>

\* a configuration in which Allowlist::load finds nothing: dirs::config_dir()
\* is None
NoConfigDir == [config_dir |-> FALSE, exists |-> FALSE, open_ok |-> FALSE, lines |-> <<>>]

AlIdle ==
    al = [pc |-> "off", rules |-> <<>>, path |-> "", answer |-> FALSE,
          loaded |-> FALSE, config |-> NoConfigDir]
ScIdle == sc = [pc |-> "off", variant |-> "", result |-> <<>>]

-----------------------------------------------------------------------------
(* delete_items called on its own, as the tests of cleaner.rs do *)

\* longest item list handed to delete_items
MaxItems == 4

\* the items a caller may hand over
CleanerItemUniverse ==
    { [path |-> "docker://0a1b/<none>:<none>", size |-> 2],
      [path |-> "docker://9f8e/org/app:<none>", size |-> 4],
      [path |-> Join(Downloads, "Keep"), size |-> 2],
      [path |-> Join(Downloads, "KeepExtra"), size |-> 1],
      [path |-> Join(Downloads, "gone"), size |-> 0] }

InitCleaner ==
    /\ AppIdle /\ AlIdle /\ ScIdle
    /\ allowlist = <<>>
    /\ fs = Disk
    /\ locked \in LockChoices
    /\ docker \in {DockerRunning, DockerMissing}
    /\ cleaner \in {CleanerCalled(items) :
                       items \in SeqsUpTo(CleanerItemUniverse, MaxItems)}

NextCleaner == CleanerBegin \/ CleanerRmi \/ CleanerRemove

SpecCleaner == InitCleaner /\ [][NextCleaner]_vars

\* the ids of the virtual items of a list and the paths of the others, in
\* input order, read off the items directly
VirtualIdsOf(items) ==
    LET v == SelectSeq(items, LAMBDA it : SubSeq(it.path, 1, 9) = "docker://")
    IN  [k \in 1..Len(v) |->
           LET rest == SubSeq(v[k].path, 10, Len(v[k].path))
           IN  IF \E j \in 1..Len(rest) : CharAt(rest, j) = "/"
               THEN SubSeq(rest, 1,
                      (CHOOSE j \in 1..Len(rest) :
                          /\ CharAt(rest, j) = "/"
                          /\ \A h \in 1..(j - 1) : CharAt(rest, h) # "/") - 1)
               ELSE rest]

RealPathsOf(items) ==
    LET r == SelectSeq(items, LAMBDA it : SubSeq(it.path, 1, 9) # "docker://")
    IN  [k \in 1..Len(r) |-> r[k].path]

IsPrefixSeq(a, b) == Len(a) <= Len(b) /\ SubSeq(b, 1, Len(a)) = a

\* C6: image ids are removed one at a time in input order; when the k-th
\* removal exits non-zero, delete_items returns an error carrying that
\* command's stdout and stderr, no id after the k-th was attempted, no
\* filesystem path of the batch was touched, and the ids before the k-th are
\* removed.
C6_RmiFailureAborts ==
    LET ids == VirtualIdsOf(cleaner.items)
        k == Len(cleaner.rmi_calls)
    IN  /\ IsPrefixSeq(cleaner.rmi_calls, ids)
        /\ (cleaner.pc = "returned" /\ cleaner.rmi_failed # <<>>) =>
              /\ ~cleaner.result.ok
              /\ Contains(cleaner.result.msg, cleaner.rmi_failed[1].stdout)
              /\ Contains(cleaner.result.msg, cleaner.rmi_failed[1].stderr)
              /\ Contains(cleaner.result.msg, ids[k])
              /\ cleaner.rmi_calls = SubSeq(ids, 1, k)
              /\ cleaner.rmi_removed = SubSeq(ids, 1, k - 1)
              /\ \A j \in 1..(k - 1) :
                    \A m \in 1..Len(docker.images) : docker.images[m].id # ids[j]
              /\ cleaner.fs_calls = <<>>
              /\ fs = Disk

\* C6 witness: the second of two removals failed, with a path in the batch
C6_Witness ==
    /\ cleaner.pc = "returned"
    /\ cleaner.rmi_failed # <<>>
    /\ Len(cleaner.rmi_calls) = 2
    /\ cleaner.rmi_calls[1] # cleaner.rmi_calls[2]
    /\ Len(cleaner.rmi_removed) = 1
    /\ Len(VirtualIdsOf(cleaner.items)) = 3
    /\ RealPathsOf(cleaner.items) # <<>>

\* C7: with every image removal successful (or no virtual id in the batch),
\* delete_items returns success after attempting each filesystem path exactly
\* once, in input order, whichever of the removals failed.
C7_BestEffortSuccess ==
    (/\ cleaner.pc = "returned"
     /\ cleaner.items # <<>>
     /\ cleaner.rmi_removed = VirtualIdsOf(cleaner.items)) =>
        /\ cleaner.result.ok
        /\ cleaner.fs_calls = RealPathsOf(cleaner.items)

\* C7 witness: success although a removal failed: an attempted path still exists
C7_Witness ==
    /\ cleaner.pc = "returned"
    /\ cleaner.result.ok
    /\ cleaner.rmi_removed # <<>>
    /\ Len(cleaner.fs_calls) >= 2
    /\ \E j \in 1..Len(cleaner.fs_calls) :
          /\ cleaner.fs_calls[j] \in DOMAIN Disk
          /\ cleaner.fs_calls[j] \in DOMAIN fs

\* C8: delete_items of the empty list returns success, runs no image removal
\* and removes nothing.
C8_EmptyInputNoop ==
    (cleaner.pc = "returned" /\ cleaner.items = <<>>) =>
        /\ cleaner.result = Ok
        /\ cleaner.rmi_calls = <<>>
        /\ cleaner.fs_calls = <<>>
        /\ fs = Disk
        /\ docker \in {DockerRunning, DockerMissing}

\* C8 witness: delete_items has returned from the empty list
C8_Witness ==
    /\ cleaner.pc = "returned"
    /\ cleaner.items = <<>>
    /\ cleaner.result.ok

-----------------------------------------------------------------------------
(* App (src/ui/app.rs) *)

\* number of categories start_scan launches in the model
NumCategories == 2

\* the categories of the model, out of the twelve of app.rs:179-192
ScannedCategories == <<"Downloads", "DockerImages", "NodeModules">>

Categories == SubSeq(ScannedCategories, 1, NumCategories)

\* the orders in which directories may list their entries
DiskListing ==
    << Downloads,
       Join(Downloads, "Keep"),
       Join(Join(Downloads, "Keep"), "a.bin"),
       Join(Downloads, "KeepExtra"),
       Join(Downloads, "old"),
       Join(Join(Downloads, "old"), "Secret") >>

Reverse(s) == [k \in 1..Len(s) |-> s[Len(s) + 1 - k]]

ListingOrders == {DiskListing, Reverse(DiskListing)}

\* the scanner a category runs (mod.rs:65-102 get_all_scanners)
ScanCategory(category, f, rules, d, ord) ==
    CASE category = "Downloads" ->
            PathScannerScan("Downloads", f, rules, <<Join(Home, DOWNLOADS_DIR)>>, ord)
      [] category = "DockerImages" -> DockerScannerScan(d, rules)
      [] category = "NodeModules" -> NodeModulesScannerScan(f, rules, ord)

AppState(tag) == [tag |-> tag, msg |-> ""]
Done(msg) == [tag |-> "Done", msg |-> msg]

\* app.rs:42-54 App::new_scanning
NewScanning ==
    /\ results = <<>>
    /\ list_state = <<>>
    /\ state = AppState("Scanning")
    /\ cleaning_rx = "None"
    /\ scan_rx = "None"
    /\ scan_progress = <<>>
    /\ total_categories = 0

\* a mutation of total_selected_size that forgets the is_selected filter
TotalSizeOfAllRows(rs) ==
    SumOver(1..Len(rs), [k \in 1..Len(rs) |-> rs[k].total_size])

\* app.rs:100-106 App::total_selected_size
TotalSelectedSize(rs) ==
    SumOver({k \in 1..Len(rs) : rs[k].is_selected},
            [k \in 1..Len(rs) |-> rs[k].total_size])

RECURSIVE ItemsToDelete(_)
\* app.rs:110-115: the items of the selected rows, row after row
ItemsToDelete(rs) ==
    IF rs = <<>> THEN <<>>
    ELSE (IF Head(rs).is_selected THEN Head(rs).items ELSE <<>>)
            \o ItemsToDelete(Tail(rs))

\* humansize::format_size(size, BINARY) below 1 KiB
FormatSize(size) == ToString(size) \o " B"

\* app.rs:173-228 App::start_scan
StartScan ==
    /\ loop_pc = "main"
    /\ scan_rx' = "Some"
    /\ scan_chan' = <<>>
    /\ total_categories' = Len(Categories)
    /\ scan_progress' =
         [c \in Range(Categories) |->
            [category |-> c, items_count |-> 0, status |-> "Waiting..."]]
    /\ task' = [c \in Range(Categories) |-> [pc |-> "scanning", sent |-> 0]]
    /\ loop_pc' = "tick"
    /\ UNCHANGED <<results, list_state, state, cleaning_rx, cleaning_chan,
                   cleaner, envVars, al, sc>>

\* a mutation of the channel: it holds one message, and a send that finds it
\* full is dropped
SendScanDropsWhenFull(chan, rx, msg) ==
    IF rx = "Some" /\ chan = <<>> THEN Append(chan, msg) ELSE chan

\* tx.send(..) on the scan channel; a send after the receiver is gone is lost
SendScan(chan, rx, msg) == IF rx = "Some" THEN Append(chan, msg) ELSE chan

\* app.rs:214-220: the scan thread of a category calls the progress callback.
\* The threads are not joined: they run until the process ends, which it does
\* when run_app has returned.
TaskProgress(c) ==
    /\ loop_pc # "returned"
    /\ c \in DOMAIN task
    /\ task[c].pc = "scanning"
    /\ \E ord \in ListingOrders :
          task[c].sent < ScanCategory(c, fs, allowlist, docker, ord).callbacks
    /\ scan_chan' = SendScan(scan_chan, scan_rx,
                       [kind |-> "Progress", category |-> c, items_count |-> 1,
                        status |-> "Scanning..."])
    /\ task' = [task EXCEPT ![c].sent = @ + 1]
    /\ UNCHANGED <<appVars, cleaning_chan, cleaner, envVars, al, sc>>

\* a mutation of the scan thread: the result is sent before the progress of
\* the last callback
TaskResultBeforeLastProgress(c) ==
    /\ loop_pc # "returned"
    /\ c \in DOMAIN task
    /\ task[c].pc = "scanning"
    /\ \E ord \in ListingOrders :
          LET scan == ScanCategory(c, fs, allowlist, docker, ord)
          IN  /\ task[c].sent + 1 = scan.callbacks
              /\ scan_chan' =
                   SendScan(SendScan(scan_chan, scan_rx,
                                     [kind |-> "Result", result |-> scan.result]),
                            scan_rx,
                            [kind |-> "Progress", category |-> c,
                             items_count |-> 1, status |-> "Scanning..."])
    /\ task' = [task EXCEPT ![c].pc = "done", ![c].sent = @ + 1]
    /\ UNCHANGED <<appVars, cleaning_chan, cleaner, envVars, al, sc>>

\* a mutation of the scan thread: the thread does not end with its send, so
\* the result may be sent again
TaskResultRepeats(c) ==
    /\ loop_pc # "returned"
    /\ c \in DOMAIN task
    /\ task[c].pc = "scanning"
    /\ \E ord \in ListingOrders :
          LET scan == ScanCategory(c, fs, allowlist, docker, ord)
          IN  /\ task[c].sent = scan.callbacks
              /\ scan_chan' = SendScan(scan_chan, scan_rx,
                                 [kind |-> "Result", result |-> scan.result])
    /\ \E pc \in {"scanning", "done"} : task' = [task EXCEPT ![c].pc = pc]
    /\ UNCHANGED <<appVars, cleaning_chan, cleaner, envVars, al, sc>>

\* app.rs:223-225: the scan of the category returns and its result is sent
TaskResult(c) ==
    /\ loop_pc # "returned"
    /\ c \in DOMAIN task
    /\ task[c].pc = "scanning"
    /\ \E ord \in ListingOrders :
          LET scan == ScanCategory(c, fs, allowlist, docker, ord)
          IN  /\ task[c].sent = scan.callbacks
              /\ scan_chan' = SendScan(scan_chan, scan_rx,
                                 [kind |-> "Result", result |-> scan.result])
    /\ task' = [task EXCEPT ![c].pc = "done"]
    /\ UNCHANGED <<appVars, cleaning_chan, cleaner, envVars, al, sc>>

RECURSIVE InsertByTotalDesc(_, _)
InsertByTotalDesc(s, x) ==
    IF s = <<>> THEN <<x>>
    ELSE IF Head(s).total_size >= x.total_size
         THEN <<Head(s)>> \o InsertByTotalDesc(Tail(s), x)
         ELSE <<x>> \o s

RECURSIVE SortByTotalDescFrom(_, _)
SortByTotalDescFrom(done, todo) ==
    IF todo = <<>> THEN done
    ELSE SortByTotalDescFrom(InsertByTotalDesc(done, Head(todo)), Tail(todo))

\* a mutation of the completion: the rows stay in the order of arrival
SortByTotalSizeMissing(rs) == rs

\* app.rs:252 results.sort_by(|a, b| b.total_size.cmp(&a.total_size))
SortByTotalSizeDesc(rs) == SortByTotalDescFrom(<<>>, rs)

RECURSIVE DrainScanReplacesCount(_, _, _)
\* a mutation of the Progress arm: the counter is set to the update's
\* items_count where the code adds it
DrainScanReplacesCount(msgs, progress, rs) ==
    IF msgs = <<>> THEN [scan_progress |-> progress, results |-> rs]
    ELSE LET m == Head(msgs)
         IN  IF m.kind = "Progress"
             THEN DrainScanReplacesCount(Tail(msgs),
                    IF m.category \in DOMAIN progress
                    THEN [progress EXCEPT
                            ![m.category].items_count = m.items_count,
                            ![m.category].status = m.status]
                    ELSE progress,
                    rs)
             ELSE DrainScanReplacesCount(Tail(msgs),
                    IF m.result.category \in DOMAIN progress
                    THEN [progress EXCEPT ![m.result.category].status = "Done"]
                    ELSE progress,
                    Append(rs, m.result))

RECURSIVE DrainScan(_, _, _)
\* app.rs:233-248: every message waiting on the channel, in order; the value
\* is the progress map and the results after the last of them
DrainScan(msgs, progress, rs) ==
    IF msgs = <<>> THEN [scan_progress |-> progress, results |-> rs]
    ELSE LET m == Head(msgs)
         IN  IF m.kind = "Progress"
             THEN DrainScan(Tail(msgs),
                    IF m.category \in DOMAIN progress
                    THEN [progress EXCEPT
                            ![m.category].items_count = @ + m.items_count,
                            ![m.category].status = m.status]
                    ELSE progress,
                    rs)
             ELSE DrainScan(Tail(msgs),
                    IF m.result.category \in DOMAIN progress
                    THEN [progress EXCEPT ![m.result.category].status = "Done"]
                    ELSE progress,
                    Append(rs, m.result))

\* a mutation of the completion test: the first result ends the scan
ScanCompleteAtFirstResult(rs, total) == Len(rs) >= 1

\* a mutation of the completion test: one result more than there are tasks
\* is awaited
ScanCompleteOneTooMany(rs, total) == Len(rs) > total

\* app.rs:251 the completion test
ScanComplete(rs, total) == Len(rs) = total

\* a mutation of the completion: the receiver is kept when the scan ends
CheckScanStatusKeepsReceiver ==
    IF scan_rx = "Some"
    THEN LET got == DrainScan(scan_chan, scan_progress, results)
         IN  /\ scan_chan' = <<>>
             /\ scan_progress' = got.scan_progress
             /\ IF ScanComplete(got.results, total_categories)
                THEN /\ results' = SortByTotalSizeDesc(got.results)
                     /\ list_state' = IF got.results # <<>> THEN <<0>> ELSE list_state
                     /\ state' = AppState("Browsing")
                     /\ UNCHANGED scan_rx
                ELSE /\ results' = got.results
                     /\ UNCHANGED <<list_state, state, scan_rx>>
    ELSE UNCHANGED <<scan_chan, scan_progress, results, list_state, state, scan_rx>>

\* app.rs:230-261 App::check_scan_status
CheckScanStatus ==
    IF scan_rx = "Some"
    THEN LET got == DrainScan(scan_chan, scan_progress, results)
         IN  /\ scan_chan' = <<>>
             /\ scan_progress' = got.scan_progress
             /\ IF ScanComplete(got.results, total_categories)
                THEN /\ results' = SortByTotalSizeDesc(got.results)
                     /\ list_state' = IF got.results # <<>> THEN <<0>> ELSE list_state
                     /\ state' = AppState("Browsing")
                     /\ scan_rx' = "None"
                ELSE /\ results' = got.results
                     /\ UNCHANGED <<list_state, state, scan_rx>>
    ELSE UNCHANGED <<scan_chan, scan_progress, results, list_state, state, scan_rx>>

\* a mutation of the result handling: the rows are reset on failure as well
ResetSelectedAlways(rs, ok) ==
    [k \in 1..Len(rs) |->
       IF rs[k].is_selected
       THEN [rs[k] EXCEPT !.is_selected = FALSE, !.items = <<>>, !.total_size = 0]
       ELSE rs[k]]

\* a mutation of the reset: the items are dropped, total_size and is_selected
\* are kept
ResetItemsOnly(rs, ok) ==
    IF ok
    THEN [k \in 1..Len(rs) |->
            IF rs[k].is_selected THEN [rs[k] EXCEPT !.items = <<>>] ELSE rs[k]]
    ELSE rs

\* a mutation of the reset: total_size and is_selected are cleared, the items
\* are kept
ResetKeepsItems(rs, ok) ==
    IF ok
    THEN [k \in 1..Len(rs) |->
            IF rs[k].is_selected
            THEN [rs[k] EXCEPT !.is_selected = FALSE, !.total_size = 0]
            ELSE rs[k]]
    ELSE rs

\* a mutation of the reset: the rows that were selected are removed from
\* results
RemoveSelectedRows(rs, ok) ==
    IF ok THEN SelectSeq(rs, LAMBDA r : ~r.is_selected) ELSE rs

\* app.rs:151-168: the rows after a cleaning result: on Ok every selected row
\* is cleared, on Err nothing is touched
ResultsAfterCleaning(rs, ok) ==
    IF ok
    THEN [k \in 1..Len(rs) |->
            IF rs[k].is_selected
            THEN [rs[k] EXCEPT !.is_selected = FALSE, !.items = <<>>, !.total_size = 0]
            ELSE rs[k]]
    ELSE rs

\* a mutation of the result handling: an Err of the cleaner is received and
\* dropped, the app stays in Cleaning
CheckCleaningStatusDropsError ==
    IF cleaning_rx = "Some" /\ cleaning_chan # <<>>
    THEN LET result == Head(cleaning_chan)
         IN  /\ cleaning_chan' = Tail(cleaning_chan)
             /\ IF result.ok
                THEN /\ state' = Done(result.msg)
                     /\ results' = ResultsAfterCleaning(results, result.ok)
                     /\ cleaning_rx' = "None"
                ELSE UNCHANGED <<state, results, cleaning_rx>>
    ELSE UNCHANGED <<cleaning_chan, state, results, cleaning_rx>>

\* a mutation of the receipt: the receiver is kept after the result is taken
CheckCleaningStatusKeepsReceiver ==
    IF cleaning_rx = "Some" /\ cleaning_chan # <<>>
    THEN LET result == Head(cleaning_chan)
         IN  /\ cleaning_chan' = Tail(cleaning_chan)
             /\ state' = Done(result.msg)
             /\ results' = ResultsAfterCleaning(results, result.ok)
             /\ UNCHANGED cleaning_rx
    ELSE UNCHANGED <<cleaning_chan, state, results, cleaning_rx>>

\* app.rs:147-172 App::check_cleaning_status
CheckCleaningStatus ==
    IF cleaning_rx = "Some" /\ cleaning_chan # <<>>
    THEN LET result == Head(cleaning_chan)
         IN  /\ cleaning_chan' = Tail(cleaning_chan)
             /\ state' = Done(result.msg)
             /\ results' = ResultsAfterCleaning(results, result.ok)
             /\ cleaning_rx' = "None"
    ELSE UNCHANGED <<cleaning_chan, state, results, cleaning_rx>>

\* a mutation of the loop turn: a cleaning result that is an error starts the
\* cleaner again on the same items
TickRetriesOnError ==
    /\ loop_pc = "tick"
    /\ \/ /\ state.tag = "Cleaning"
          /\ IF cleaning_rx = "Some" /\ cleaning_chan # <<>>
                /\ ~Head(cleaning_chan).ok
             THEN /\ cleaning_chan' = <<>>
                  /\ cleaner' = CleanerCalled(cleaner.items)
                  /\ UNCHANGED <<state, results, cleaning_rx>>
             ELSE /\ CheckCleaningStatus
                  /\ UNCHANGED cleaner
          /\ UNCHANGED <<list_state, scan_rx, scan_progress, scan_chan>>
       \/ /\ state.tag = "Scanning"
          /\ CheckScanStatus
          /\ UNCHANGED <<cleaning_rx, cleaning_chan, cleaner>>
       \/ /\ state.tag \notin {"Cleaning", "Scanning"}
          /\ UNCHANGED <<results, list_state, state, cleaning_rx, scan_rx,
                         scan_progress, scan_chan, cleaning_chan, cleaner>>
    /\ loop_pc' = "poll"
    /\ UNCHANGED <<total_categories, task, envVars, al, sc>>

\* mod.rs:46-57: one turn of the loop up to the poll: draw, then the check
\* the state asks for
Tick ==
    /\ loop_pc = "tick"
    /\ \/ /\ state.tag = "Cleaning"
          /\ CheckCleaningStatus
          /\ UNCHANGED <<list_state, scan_rx, scan_progress, scan_chan>>
       \/ /\ state.tag = "Scanning"
          /\ CheckScanStatus
          /\ UNCHANGED <<cleaning_rx, cleaning_chan>>
       \/ /\ state.tag \notin {"Cleaning", "Scanning"}
          /\ UNCHANGED <<results, list_state, state, cleaning_rx, scan_rx,
                         scan_progress, scan_chan, cleaning_chan>>
    /\ loop_pc' = "poll"
    /\ UNCHANGED <<total_categories, task, cleaner, envVars, al, sc>>

\* the keys of a press event; "x" stands for every key no arm names
KeyCodes == {"q", "Esc", "Enter", " ", "j", "k", "Down", "Up", "y", "n", "x"}

\* a mutation of next that stops at the last row
NextSelectedNoWrap(selected, len) ==
    IF len = 0 THEN selected
    ELSE IF selected = <<>> THEN <<0>>
    ELSE IF selected[1] >= len - 1 THEN selected ELSE <<selected[1] + 1>>

\* app.rs:56-72 App::next
NextSelected(selected, len) ==
    IF len = 0 THEN selected
    ELSE IF selected = <<>> THEN <<0>>
    ELSE IF selected[1] >= len - 1 THEN <<0>> ELSE <<selected[1] + 1>>

\* app.rs:74-90 App::previous
PreviousSelected(selected, len) ==
    IF len = 0 THEN selected
    ELSE IF selected = <<>> THEN <<0>>
    ELSE IF selected[1] = 0 THEN <<len - 1>> ELSE <<selected[1] - 1>>

\* app.rs:92-98 App::toggle
Toggled(rs, selected) ==
    IF selected # <<>> /\ selected[1] < Len(rs)
    THEN [rs EXCEPT ![selected[1] + 1].is_selected = ~@]
    ELSE rs

\* app.rs:108-145 App::clean_selected: nothing to delete ends in Done at
\* once; else the state is Cleaning and a thread is spawned with the items
CleanSelected ==
    LET items_to_delete == ItemsToDelete(results)
    IN  IF items_to_delete = <<>>
        THEN /\ state' = Done("Nothing selected to clean.")
             /\ UNCHANGED <<cleaning_rx, cleaning_chan, cleaner>>
        ELSE /\ state' = AppState("Cleaning")
             /\ cleaning_rx' = "Some"
             /\ cleaning_chan' = <<>>
             /\ cleaner' = CleanerCalled(items_to_delete)

\* a mutation of the message: the size counts only the items that are gone
\* from the disk when delete_items has returned
CleanerSendCountsRemoved ==
    /\ cleaner.pc = "returned"
    /\ cleaning_chan' =
         IF cleaning_rx = "Some"
         THEN Append(cleaning_chan,
                IF cleaner.result.ok
                THEN [ok |-> TRUE,
                      msg |-> "Successfully cleaned "
                                \o FormatSize(SumSizes(
                                     SelectSeq(cleaner.items, LAMBDA it :
                                        IsDockerPath(it.path) \/ ~Exists(fs, it.path))))
                                \o "!"]
                ELSE [ok |-> FALSE,
                      msg |-> "Error during cleaning: " \o cleaner.result.msg])
         ELSE cleaning_chan
    /\ cleaner' = [cleaner EXCEPT !.pc = "sent"]
    /\ UNCHANGED <<appVars, scan_chan, task, envVars, al, sc>>

\* app.rs:134-143: the spawned thread, after delete_items has returned, sends
\* the message for its result
CleanerSend ==
    /\ cleaner.pc = "returned"
    /\ cleaning_chan' =
         IF cleaning_rx = "Some"
         THEN Append(cleaning_chan,
                IF cleaner.result.ok
                THEN [ok |-> TRUE,
                      msg |-> "Successfully cleaned "
                                \o FormatSize(SumSizes(cleaner.items)) \o "!"]
                ELSE [ok |-> FALSE,
                      msg |-> "Error during cleaning: " \o cleaner.result.msg])
         ELSE cleaning_chan
    /\ cleaner' = [cleaner EXCEPT !.pc = "sent"]
    /\ UNCHANGED <<appVars, scan_chan, task, envVars, al, sc>>

\* mod.rs:59-62: the poll times out, or the event is no key press
NoEvent ==
    /\ loop_pc = "poll"
    /\ loop_pc' = "tick"
    /\ UNCHANGED <<results, list_state, state, cleaning_rx, scan_rx, scan_progress,
                   total_categories, chanVars, task, cleaner, envVars, al, sc>>

\* mod.rs:64-76: a key press in Browsing
KeyBrowsing(key) ==
    /\ loop_pc = "poll"
    /\ state.tag = "Browsing"
    /\ CASE key = "q" ->
              /\ loop_pc' = "returned"
              /\ UNCHANGED <<results, list_state, state>>
         [] key \in {"Down", "j"} ->
              /\ list_state' = NextSelected(list_state, Len(results))
              /\ loop_pc' = "tick"
              /\ UNCHANGED <<results, state>>
         [] key \in {"Up", "k"} ->
              /\ list_state' = PreviousSelected(list_state, Len(results))
              /\ loop_pc' = "tick"
              /\ UNCHANGED <<results, state>>
         [] key = " " ->
              /\ results' = Toggled(results, list_state)
              /\ loop_pc' = "tick"
              /\ UNCHANGED <<list_state, state>>
         [] key = "Enter" ->
              /\ state' = IF TotalSelectedSize(results) > 0
                          THEN AppState("Confirming") ELSE state
              /\ loop_pc' = "tick"
              /\ UNCHANGED <<results, list_state>>
         [] OTHER ->
              /\ loop_pc' = "tick"
              /\ UNCHANGED <<results, list_state, state>>
    /\ UNCHANGED <<cleaning_rx, scan_rx, scan_progress, total_categories,
                   chanVars, task, cleaner, envVars, al, sc>>

\* a mutation of the cancel arm: going back to Browsing clears the selection
KeyConfirmingCancelDeselects(key) ==
    /\ loop_pc = "poll"
    /\ state.tag = "Confirming"
    /\ CASE key \in {"y", "Enter"} ->
              /\ CleanSelected
              /\ UNCHANGED results
         [] key \in {"n", "q", "Esc"} ->
              /\ state' = AppState("Browsing")
              /\ results' = [r \in 1..Len(results) |->
                                [results[r] EXCEPT !.is_selected = FALSE]]
              /\ UNCHANGED <<cleaning_rx, cleaning_chan, cleaner>>
         [] OTHER ->
              /\ UNCHANGED <<state, results, cleaning_rx, cleaning_chan, cleaner>>
    /\ loop_pc' = "tick"
    /\ UNCHANGED <<list_state, scan_rx, scan_progress, total_categories,
                   scan_chan, task, envVars, al, sc>>

\* mod.rs:77-83: a key press in Confirming
KeyConfirming(key) ==
    /\ loop_pc = "poll"
    /\ state.tag = "Confirming"
    /\ CASE key \in {"y", "Enter"} ->
              /\ CleanSelected
         [] key \in {"n", "q", "Esc"} ->
              /\ state' = AppState("Browsing")
              /\ UNCHANGED <<cleaning_rx, cleaning_chan, cleaner>>
         [] OTHER ->
              /\ UNCHANGED <<state, cleaning_rx, cleaning_chan, cleaner>>
    /\ loop_pc' = "tick"
    /\ UNCHANGED <<results, list_state, scan_rx, scan_progress, total_categories,
                   scan_chan, task, envVars, al, sc>>

\* a mutation of the Cleaning arm: the space key toggles as in Browsing
KeyCleaningToggles(key) ==
    /\ loop_pc = "poll"
    /\ state.tag = "Cleaning"
    /\ loop_pc' = "tick"
    /\ results' = IF key = " " THEN Toggled(results, list_state) ELSE results
    /\ UNCHANGED <<list_state, state, cleaning_rx, scan_rx, scan_progress,
                   total_categories, chanVars, task, cleaner, envVars, al, sc>>

\* mod.rs:84-87: a key press in Cleaning is ignored
KeyCleaning(key) ==
    /\ loop_pc = "poll"
    /\ state.tag = "Cleaning"
    /\ loop_pc' = "tick"
    /\ UNCHANGED <<results, list_state, state, cleaning_rx, scan_rx, scan_progress,
                   total_categories, chanVars, task, cleaner, envVars, al, sc>>

\* a mutation of the quit: q and Esc leave run_app only when every scan
\* thread has ended, and are ignored before
KeyScanningJoins(key) ==
    /\ loop_pc = "poll"
    /\ state.tag = "Scanning"
    /\ IF key \in {"q", "Esc"} /\ \A c \in DOMAIN task : task[c].pc = "done"
       THEN loop_pc' = "returned"
       ELSE loop_pc' = "tick"
    /\ UNCHANGED <<results, list_state, state, cleaning_rx, scan_rx, scan_progress,
                   total_categories, chanVars, task, cleaner, envVars, al, sc>>

\* mod.rs:88-93: a key press in Scanning; q and Esc leave run_app
KeyScanning(key) ==
    /\ loop_pc = "poll"
    /\ state.tag = "Scanning"
    /\ IF key \in {"q", "Esc"}
       THEN loop_pc' = "returned"
       ELSE loop_pc' = "tick"
    /\ UNCHANGED <<results, list_state, state, cleaning_rx, scan_rx, scan_progress,
                   total_categories, chanVars, task, cleaner, envVars, al, sc>>

\* mod.rs:94-99: a key press in Done
KeyDone(key) ==
    /\ loop_pc = "poll"
    /\ state.tag = "Done"
    /\ IF key \in {"Esc", "Enter", " ", "q"}
       THEN state' = AppState("Browsing")
       ELSE UNCHANGED state
    /\ loop_pc' = "tick"
    /\ UNCHANGED <<results, list_state, cleaning_rx, scan_rx, scan_progress,
                   total_categories, chanVars, task, cleaner, envVars, al, sc>>

-----------------------------------------------------------------------------
(* The program: main starts the scan, run_app loops, the threads run *)

\* the rule lists Allowlist::load may have read
AllowlistChoices ==
    { <<>>,
      <<Join(Downloads, "Keep")>>,
      <<Join(Join(Downloads, "old"), "Secret")>> }

Init ==
    /\ NewScanning
    /\ loop_pc = "main"
    /\ scan_chan = <<>>
    /\ cleaning_chan = <<>>
    /\ task = <<>>
    /\ cleaner = CleanerIdle
    /\ allowlist \in AllowlistChoices
    /\ fs = Disk
    /\ locked \in LockChoices
    /\ docker \in {DockerRunning, DockerMissing}
    /\ AlIdle /\ ScIdle

Next ==
    \/ StartScan
    \/ \E c \in Range(Categories) : TaskProgress(c)
    \/ \E c \in Range(Categories) : TaskResult(c)
    \/ Tick
    \/ NoEvent
    \/ \E key \in KeyCodes : KeyBrowsing(key)
    \/ \E key \in KeyCodes : KeyConfirming(key)
    \/ \E key \in KeyCodes : KeyCleaning(key)
    \/ \E key \in KeyCodes : KeyScanning(key)
    \/ \E key \in KeyCodes : KeyDone(key)
    \/ CleanerBegin
    \/ CleanerRmi
    \/ CleanerRemove
    \/ CleanerSend

Spec == Init /\ [][Next]_vars

-----------------------------------------------------------------------------
(* Properties of the program *)

\* C1: in Browsing, Enter changes nothing of the app when no selected row has
\* a positive size, and moves the state to exactly Confirming (rows and
\* cursor untouched) when one has.
C1_EnterInBrowsing ==
    [][KeyBrowsing("Enter") =>
         IF \E k \in 1..Len(results) :
                results[k].is_selected /\ results[k].total_size > 0
         THEN /\ state' = AppState("Confirming")
              /\ UNCHANGED <<results, list_state, cleaning_rx, scan_rx,
                             scan_progress, total_categories, chanVars,
                             cleaner, envVars>>
         ELSE /\ state.tag = "Browsing"
              /\ UNCHANGED <<results, list_state, state, cleaning_rx, scan_rx,
                             scan_progress, total_categories, chanVars,
                             cleaner, envVars>>]_vars

\* C1 witness: Enter has led to Confirming with one row selected, one not
C1_Witness ==
    /\ state.tag = "Confirming"
    /\ loop_pc = "tick"
    /\ \E k \in 1..Len(results) :
          results[k].is_selected /\ results[k].total_size > 0
    /\ \E k \in 1..Len(results) :
          ~results[k].is_selected /\ results[k].total_size > 0

\* C2: no entry of the disk for which is_allowed holds is ever removed.
C2_AllowlistedNeverRemoved ==
    \A p \in (DOMAIN Disk) \ (DOMAIN fs) : ~IsAllowed(allowlist, p)

\* C3: Scanning is left only by check_scan_status, for Browsing, with exactly
\* one result of every requested category received; while a result is missing
\* the state is Scanning.
C3_ScanningLeftWhenComplete ==
    /\ [][(state.tag = "Scanning" /\ state'.tag # "Scanning") =>
            /\ loop_pc = "tick" /\ loop_pc' = "poll"
            /\ scan_rx = "Some"
            /\ state'.tag = "Browsing"
            /\ \A c \in Range(Categories) :
                  Cardinality({k \in 1..Len(results') :
                                  results'[k].category = c}) = 1
            /\ \A k \in 1..Len(results') :
                  results'[k].category \in Range(Categories)]_vars
    /\ []((\E c \in Range(Categories) :
              \A k \in 1..Len(results) : results[k].category # c)
            => state.tag = "Scanning")

\* C3 witness: the scan is over, every category has reported
C3_Witness ==
    /\ state.tag = "Browsing"
    /\ scan_rx = "None"
    /\ Len(results) = Len(Categories)
    /\ Len(Categories) >= 2
    /\ \A c \in DOMAIN task : task[c].pc = "done"

\* the rows of rs with every selected one emptied and unselected
SelectedRowsCleared(rs, after) ==
    /\ Len(after) = Len(rs)
    /\ \A k \in 1..Len(rs) :
          IF rs[k].is_selected
          THEN /\ after[k].items = <<>>
               /\ after[k].total_size = 0
               /\ ~after[k].is_selected
               /\ after[k].category = rs[k].category
          ELSE after[k] = rs[k]

\* C4, as stated: when the result of the clean arrives in Cleaning, every
\* selected row is emptied, whether the clean succeeded or failed.
C4_RowsClearedOnAnyResult ==
    [][(state.tag = "Cleaning" /\ state'.tag # "Cleaning") =>
          SelectedRowsCleared(results, results')]_vars

\* C4: when the result of the clean arrives in Cleaning the state is Done
\* with the message of the result; after a success (even one in which
\* removals of single entries failed) every selected row is emptied, after a
\* failure the rows and their selection are as they were.
C4_RowsClearedOnSuccessOnly ==
    [][(state.tag = "Cleaning" /\ state'.tag # "Cleaning") =>
          /\ cleaning_chan # <<>>
          /\ state' = Done(Head(cleaning_chan).msg)
          /\ IF cleaner.result.ok
             THEN SelectedRowsCleared(results, results')
             ELSE results' = results]_vars

\* C4 witness: a failed clean has been reported and the selected row still
\* lists its items
C4_Witness ==
    /\ state.tag = "Done"
    /\ StartsWith(state.msg, "Error during cleaning: ")
    /\ ~cleaner.result.ok
    /\ \E k \in 1..Len(results) :
          results[k].is_selected /\ results[k].items # <<>>

\* the items are entries of the scanned disk that nothing keeps from being
\* removed
ExistingRemovable(items) ==
    \A k \in 1..Len(items) :
       /\ SubSeq(items[k].path, 1, 9) # "docker://"
       /\ items[k].path \in DOMAIN Disk
       /\ \A q \in DOMAIN Disk :
             (q = items[k].path \/ StartsWith(q, items[k].path \o "/"))
                => q \notin locked

\* C5: when a confirmed clean of existing removable entries has completed,
\* none of them (nor anything below them) exists and every selected row has
\* total_size 0, no items and is not selected.
C5_CleanRoundTrip ==
    /\ [][(state.tag = "Confirming" /\ state'.tag = "Cleaning")
             => cleaner'.items = ItemsToDelete(results)]_vars
    /\ [][(/\ state.tag = "Cleaning" /\ state'.tag # "Cleaning"
           /\ ExistingRemovable(ItemsToDelete(results)))
             => /\ \A k \in 1..Len(ItemsToDelete(results)) :
                   \A q \in DOMAIN fs' :
                      /\ q # ItemsToDelete(results)[k].path
                      /\ ~StartsWith(q, ItemsToDelete(results)[k].path \o "/")
                /\ SelectedRowsCleared(results, results')
                /\ state'.tag = "Done"]_vars

\* C5 witness: a clean of the whole Downloads row has completed and emptied it
C5_Witness ==
    /\ state.tag = "Done"
    /\ cleaner.pc = "sent"
    /\ cleaner.result.ok
    /\ Len(cleaner.fs_calls) >= 2
    /\ cleaner.rmi_calls = <<>>
    /\ \A k \in 1..Len(cleaner.fs_calls) : cleaner.fs_calls[k] \notin DOMAIN fs
    /\ \E k \in 1..Len(results) :
          /\ results[k].category = "Downloads"
          /\ results[k].items = <<>>
          /\ results[k].total_size = 0
          /\ ~results[k].is_selected

\* the messages of kind k about category c, as positions of a channel content
PositionsOf(chan, k, c) ==
    {j \in 1..Len(chan) :
        /\ chan[j].kind = k
        /\ (IF k = "Result" THEN chan[j].result.category ELSE chan[j].category) = c}

\* C11: for every category the Result is sent, and so received, after every
\* Progress of that category: on the channel no Progress of a category is
\* behind its Result, none is sent once the Result is received, and a status
\* that is "Done" stays "Done".
C11_ResultAfterProgress ==
    /\ [](\A c \in Range(Categories) :
            /\ \A i \in PositionsOf(scan_chan, "Result", c) :
                  \A j \in PositionsOf(scan_chan, "Progress", c) : j < i
            /\ (\E k \in 1..Len(results) : results[k].category = c) =>
                  /\ PositionsOf(scan_chan, "Progress", c) = {}
                  /\ c \in DOMAIN scan_progress
                  /\ scan_progress[c].status = "Done")
    /\ [][\A c \in DOMAIN scan_progress :
            scan_progress[c].status = "Done" =>
               /\ c \in DOMAIN scan_progress'
               /\ scan_progress'[c].status = "Done"
               /\ scan_progress'[c].items_count = scan_progress[c].items_count]_vars

\* C11 witness: one category is Done after several progress updates while
\* another is still being scanned
C11_Witness ==
    /\ state.tag = "Scanning"
    /\ \E c, d \in DOMAIN scan_progress :
          /\ scan_progress[c].status = "Done"
          /\ scan_progress[c].items_count >= 2
          /\ scan_progress[d].status = "Scanning..."
          /\ task[d].pc = "scanning"

\* C12: when the app moves from Scanning to Browsing, results is ordered by
\* total_size descending, holds the received results, and the cursor is on
\* row 0 when results is not empty.
C12_SortedAtBrowsing ==
    [][(state.tag = "Scanning" /\ state'.tag = "Browsing") =>
          /\ \A k \in 1..(Len(results') - 1) :
                results'[k].total_size >= results'[k + 1].total_size
          /\ Range(results') = Range(DrainScan(scan_chan, scan_progress, results).results)
          /\ Len(results') = total_categories
          /\ results' # <<>> => list_state' = <<0>>]_vars

\* C12 witness: Browsing has just been reached with the larger row first, the
\* row of the last category of start_scan
C12_Witness ==
    /\ state.tag = "Browsing"
    /\ loop_pc = "poll"
    /\ list_state = <<0>>
    /\ Len(results) >= 2
    /\ results[1].total_size > results[2].total_size
    /\ results[1].category = Categories[Len(Categories)]
    /\ \A k \in 1..Len(results) : ~results[k].is_selected /\ results[k].items # <<>>

\* C13: a confirm (y or Enter) in Confirming always finds items to delete: it
\* moves the state to Cleaning and starts one cleaner thread with the items
\* of the selected rows, never to Done; in Confirming the selected size is
\* positive and no cleaner thread is running.
C13_ConfirmDispatchesCleaner ==
    /\ [](state.tag = "Confirming" =>
            /\ \E k \in 1..Len(results) :
                  results[k].is_selected /\ results[k].total_size > 0
            /\ ItemsToDelete(results) # <<>>
            /\ cleaner.pc \in {"idle", "sent"}
            /\ cleaning_chan = <<>>)
    /\ [][(\E key \in {"y", "Enter"} : KeyConfirming(key)) =>
            /\ state' = AppState("Cleaning")
            /\ cleaning_rx' = "Some"
            /\ cleaner' = CleanerCalled(ItemsToDelete(results))
            /\ cleaner'.items # <<>>]_vars
    /\ [](state.tag = "Done" => state.msg # "Nothing selected to clean.")

\* C13 witness: the confirm has started the cleaner with the items of two rows
C13_Witness ==
    /\ state.tag = "Cleaning"
    /\ cleaner.pc = "called"
    /\ loop_pc = "tick"
    /\ \E i, j \in 1..Len(results) :
          i # j /\ results[i].is_selected /\ results[j].is_selected
    /\ Len(cleaner.items) >= 4

\* mod.rs:59-101: the rest of a turn of the loop: the poll and what it handles
LoopPoll ==
    \/ NoEvent
    \/ \E key \in KeyCodes :
          \/ KeyBrowsing(key)
          \/ KeyConfirming(key)
          \/ KeyCleaning(key)
          \/ KeyScanning(key)
          \/ KeyDone(key)

\* main and run_app (mod.rs:46-101): start_scan, then turn after turn
Loop == StartScan \/ Tick \/ LoopPoll

\* The program with its scheduling: the loop of run_app keeps turning (the
\* poll returns after 100 ms at the latest). Nothing is assumed of the
\* spawned threads: a scan or a removal may take for ever.
SpecLive == Spec /\ WF_vars(Loop)

\* C14: the loop is never stuck: while run_app has not returned a step of the
\* loop is possible; once the cleaner thread has ended, Cleaning leads to Done,
\* and the tick that receives the result sets Done with its message; in Done
\* Esc, Enter, space and q lead to Browsing.
C14_NoDeadEnd ==
    /\ [](loop_pc \in {"tick", "poll"} => ENABLED (Tick \/ NoEvent))
    /\ (state.tag = "Cleaning" /\ cleaner.pc = "sent") ~> (state.tag = "Done")
    /\ [](state.tag = "Cleaning" =>
            /\ loop_pc \in {"tick", "poll"}
            /\ cleaning_rx = "Some"
            /\ cleaner.pc = "sent" <=> cleaning_chan # <<>>)
    /\ [][(Tick /\ state.tag = "Cleaning" /\ cleaning_chan # <<>>) =>
            /\ state'.tag = "Done"
            /\ state'.msg = Head(cleaning_chan).msg
            /\ Len(state'.msg) > 0]_vars
    /\ [][\A key \in {"Esc", "Enter", " ", "q"} :
            KeyDone(key) => state' = AppState("Browsing")]_vars

\* C14 witness: an error of the cleaner has been acknowledged
C14_Witness ==
    /\ state.tag = "Browsing"
    /\ cleaner.pc = "sent"
    /\ ~cleaner.result.ok
    /\ cleaning_rx = "None"
    /\ loop_pc = "tick"

\* C15: when every scan thread ends, the fair loop reaches Browsing, unless
\* the operator has quit before; while a thread has not sent its result the
\* state is Scanning, whatever time passes.
C15_ScanEndsOrStalls ==
    /\ (/\ state.tag = "Scanning"
        /\ task # <<>>
        /\ \A c \in DOMAIN task : task[c].pc = "done")
          ~> (state.tag = "Browsing" \/ loop_pc = "returned")
    /\ []((\E c \in Range(Categories) : c \notin DOMAIN task \/ task[c].pc # "done")
            => state.tag = "Scanning")
    /\ [][(state.tag = "Scanning" /\ loop_pc' # "returned" /\ loop_pc # "main"
           /\ \E c \in DOMAIN task : task[c].pc # "done") =>
             state'.tag = "Scanning"]_vars

\* C15 witness: every thread has ended and the app browses
C15_Witness ==
    /\ state.tag = "Browsing"
    /\ loop_pc = "poll"
    /\ task # <<>>
    /\ \A c \in DOMAIN task : task[c].pc = "done"
    /\ \E c \in DOMAIN scan_progress : scan_progress[c].items_count >= 2

\* the scan threads that have not sent their result
RunningTasks == { c \in DOMAIN task : task[c].pc # "done" }

\* C16: in Scanning the poll can always deliver q or Esc, whatever number of
\* scan threads still run; that key press ends run_app in the same step, and
\* the step touches neither the threads nor the channel nor the app (nothing
\* is awaited, nothing is sent to the threads).
C16_QuitWhileScanning ==
    /\ [](state.tag = "Scanning" /\ loop_pc = "poll" =>
            \A key \in {"q", "Esc"} : ENABLED KeyScanning(key))
    /\ [][\A key \in {"q", "Esc"} :
            KeyScanning(key) =>
              /\ loop_pc' = "returned"
              /\ UNCHANGED <<task, chanVars, results, list_state, state,
                             cleaning_rx, scan_rx, scan_progress,
                             total_categories>>]_vars

\* C16 witness: run_app has returned on a quit while one thread had sent its
\* result and another had not
C16_Witness ==
    /\ loop_pc = "returned"
    /\ state.tag = "Scanning"
    /\ RunningTasks # {}
    /\ RunningTasks # DOMAIN task

\* the rows of results that are of category c
RowsOf(rs, c) == {k \in 1..Len(rs) : rs[k].category = c}

\* C18: start_scan starts one thread for each category of its list, no more;
\* a thread sends one ScanResult, of its own category, as its last act, so for
\* every category the results on the channel and in results together are one
\* when its thread has ended and none before; results has at most one row of
\* a category and never more rows than total_categories.
C18_OneResultPerCategory ==
    /\ [][StartScan =>
            /\ DOMAIN task' = Range(Categories)
            /\ Cardinality(DOMAIN task') = total_categories'
            /\ \A c \in DOMAIN task' : task'[c].pc = "scanning"]_vars
    /\ [][DOMAIN task' # DOMAIN task => StartScan]_vars
    /\ [](\A c \in DOMAIN task :
            Cardinality(PositionsOf(scan_chan, "Result", c))
              + Cardinality(RowsOf(results, c))
              = IF task[c].pc = "done" THEN 1 ELSE 0)
    /\ [](\A c \in Range(Categories) : Cardinality(RowsOf(results, c)) <= 1)
    /\ [](Len(results) <= total_categories)

\* C18 witness: every thread has sent its result and every result is received
C18_Witness ==
    /\ total_categories = NumCategories
    /\ Len(results) = NumCategories
    /\ scan_chan = <<>>
    /\ \A c \in Range(Categories) : Cardinality(RowsOf(results, c)) = 1

\* the sum of the items_count of the Progress messages of category c on a
\* channel content
ProgressSum(chan, c) ==
    SumOver(PositionsOf(chan, "Progress", c),
            [j \in 1..Len(chan) |->
               IF chan[j].kind = "Progress" THEN chan[j].items_count ELSE 0])

\* the status of category c after the messages of a channel content: that of
\* the last message about c, "Done" for a Result; old when there is none
LastStatus(chan, c, old) ==
    LET about == PositionsOf(chan, "Progress", c) \cup PositionsOf(chan, "Result", c)
    IN  IF about = {} THEN old
        ELSE LET j == CHOOSE i \in about : \A h \in about : h <= i
             IN  IF chan[j].kind = "Progress" THEN chan[j].status ELSE "Done"

\* app.rs:269-307 test_check_scan_status_updates, first half, followed by a
\* second update: 0 + 5 is 5, 5 + 3 is 8, the status is the update's and no
\* result is stored
TestCheckScanStatusUpdates ==
    LET waiting == [c \in {"XcodeJunk"} |->
                      [category |-> c, items_count |-> 0, status |-> "Waiting..."]]
        update(n) == [kind |-> "Progress", category |-> "XcodeJunk",
                      items_count |-> n, status |-> "Scanning..."]
        first == DrainScan(<<update(5)>>, waiting, <<>>)
        second == DrainScan(<<update(3)>>, first.scan_progress, first.results)
    IN  /\ first.scan_progress["XcodeJunk"].items_count = 5
        /\ first.scan_progress["XcodeJunk"].status = "Scanning..."
        /\ first.results = <<>>
        /\ second.scan_progress["XcodeJunk"].items_count = 8
        /\ DrainScan(<<update(5), update(3)>>, waiting, <<>>) = second

\* C19: the tick of the Scanning state adds to the counter of every category
\* the items_count of each Progress it receives for it and leaves the status
\* of the last message about it; a tick that receives no Result changes
\* neither the app state nor results; no step lowers a counter.
C19_ProgressAccumulates ==
    /\ [][(Tick /\ state.tag = "Scanning" /\ scan_rx = "Some") =>
            /\ DOMAIN scan_progress' = DOMAIN scan_progress
            /\ \A c \in DOMAIN scan_progress :
                  /\ scan_progress'[c].items_count =
                        scan_progress[c].items_count + ProgressSum(scan_chan, c)
                  /\ scan_progress'[c].status =
                        LastStatus(scan_chan, c, scan_progress[c].status)
                  /\ scan_progress'[c].category = c
            /\ (\A j \in 1..Len(scan_chan) : scan_chan[j].kind = "Progress") =>
                  /\ state' = state
                  /\ results' = results]_vars
    /\ [][\A c \in DOMAIN scan_progress \cap DOMAIN scan_progress' :
            scan_progress'[c].items_count >= scan_progress[c].items_count]_vars
    /\ []TestCheckScanStatusUpdates

\* C19 witness: two updates of a category have been received, its scan goes
\* on and the app is in Scanning
C19_Witness ==
    /\ state.tag = "Scanning"
    /\ loop_pc = "poll"
    /\ \E c \in DOMAIN scan_progress :
          /\ scan_progress[c].items_count >= 2
          /\ scan_progress[c].status = "Scanning..."

\* C26: the total_size of every ScanResult, on its way to the app on the scan
\* channel or stored in results, is the sum of the sizes of its items, before
\* and after any cleaning result is applied.
C26_TotalIsSumOfItems ==
    /\ \A k \in 1..Len(results) :
          results[k].total_size = SumSizes(results[k].items)
    /\ \A j \in 1..Len(scan_chan) :
          scan_chan[j].kind = "Result" =>
             scan_chan[j].result.total_size = SumSizes(scan_chan[j].result.items)

\* C26 witness: a successful cleaning has been applied: one row is reset, and
\* another keeps its items
C26_Witness ==
    /\ state.tag = "Done"
    /\ cleaner.pc = "sent"
    /\ cleaner.result.ok
    /\ cleaning_rx = "None"
    /\ \E k \in 1..Len(results) :
          results[k].items = <<>> /\ results[k].total_size = 0
    /\ \E k \in 1..Len(results) :
          Len(results[k].items) >= 2 /\ results[k].total_size > 0

\* the categories of the rows, in the order of the rows
CategoriesOf(rs) == [k \in 1..Len(rs) |-> rs[k].category]

\* C27: the tick that applies a cleaning result, Ok or Err, leaves the number
\* and the order of the rows as they are and leaves every row that is not
\* selected untouched; from the end of the scan on the rows and their order
\* never change.
C27_CleanKeepsRows ==
    /\ [][(Tick /\ state.tag = "Cleaning" /\ cleaning_chan # <<>>) =>
            /\ state'.tag = "Done"
            /\ Len(results') = Len(results)
            /\ CategoriesOf(results') = CategoriesOf(results)
            /\ \A k \in 1..Len(results) :
                  ~results[k].is_selected => results'[k] = results[k]]_vars
    /\ [][state.tag # "Scanning" =>
            CategoriesOf(results') = CategoriesOf(results)]_vars

\* C27 witness: a successful cleaning has been applied and acknowledged; the
\* row that was selected is there, emptied, next to a row that was not
C27_Witness ==
    /\ state.tag = "Browsing"
    /\ cleaner.pc = "sent"
    /\ cleaner.result.ok
    /\ Len(results) = NumCategories
    /\ \E i, j \in 1..Len(results) :
          /\ results[i].items = <<>> /\ results[i].total_size = 0
          /\ results[j].items # <<>> /\ ~results[j].is_selected

\* C28: a cleaner run calls the image removal and the file removal at most
\* once for each item it was given; a run starts only in the step that
\* answers y or Enter in Confirming, with no earlier run still going;
\* Confirming is entered from Browsing only; the tick that receives a failure
\* goes to Done and starts nothing, and Done leads to Browsing or nowhere.
C28_NoRetry ==
    /\ [](/\ IsPrefixSeq(cleaner.rmi_calls, CollectDockerIds(cleaner.items))
          /\ IsPrefixSeq(cleaner.fs_calls, CollectFilePaths(cleaner.items))
          /\ state.tag = "Confirming" => cleaner.pc \in {"idle", "sent"})
    /\ [][(cleaner' # cleaner /\ cleaner'.pc = "called") =>
            /\ state.tag = "Confirming" /\ loop_pc = "poll"
            /\ state'.tag = "Cleaning"
            /\ cleaner'.items = ItemsToDelete(results)]_vars
    /\ [][(state'.tag = "Confirming" /\ state.tag # "Confirming") =>
            state.tag = "Browsing"]_vars
    /\ [][state.tag = "Done" =>
            /\ state'.tag \in {"Done", "Browsing"}
            /\ cleaner'.pc # "called"]_vars
    /\ [][(Tick /\ state.tag = "Cleaning" /\ cleaning_chan # <<>>
             /\ ~Head(cleaning_chan).ok) =>
            /\ state'.tag = "Done"
            /\ cleaner' = cleaner]_vars

\* C28 witness: a run that called the image removal has failed, the failure
\* has been shown and acknowledged, and the cleaner is where it ended
C28_Witness ==
    /\ state.tag = "Browsing"
    /\ cleaner.pc = "sent"
    /\ ~cleaner.result.ok
    /\ cleaner.rmi_calls # <<>>
    /\ cleaning_rx = "None"
    /\ cleaning_chan = <<>>

\* C29: once delete_items has partitioned its input, the items whose path
\* starts with docker:// are exactly those that gave an id to the image
\* removal and the others are exactly the file paths, in input order; the id
\* of an item the container-image scanner built from an image whose id has no
\* '/' is that image's id; every image removal called so far was given such
\* an id and no path of a file item, and every file removal a path that does
\* not start with docker://.
C29_SchemePartition ==
    cleaner.pc \notin {"idle", "called"} =>
       LET items == cleaner.items
           virt == SelectSeq(items, LAMBDA it : StartsWith(it.path, DockerScheme))
           real == SelectSeq(items, LAMBDA it : ~StartsWith(it.path, DockerScheme))
       IN  /\ Len(cleaner.docker_ids) = Len(virt)
           /\ cleaner.file_paths = [k \in 1..Len(real) |-> real[k].path]
           /\ \A k \in 1..Len(virt) : \A im \in Range(DockerImages) :
                 (/\ FirstSlash(im.id) = 0
                  /\ virt[k].path = DockerScheme \o im.id \o "/" \o im.name) =>
                    cleaner.docker_ids[k] = im.id
           /\ \A j \in 1..Len(cleaner.rmi_calls) :
                 /\ cleaner.rmi_calls[j] = cleaner.docker_ids[j]
                 /\ \A k \in 1..Len(real) : real[k].path # cleaner.rmi_calls[j]
           /\ \A j \in 1..Len(cleaner.fs_calls) :
                 /\ cleaner.fs_calls[j] = cleaner.file_paths[j]
                 /\ ~StartsWith(cleaner.fs_calls[j], DockerScheme)

\* C29 witness: a run over the images of the scan and files of Downloads has
\* ended; both ids went to the image removal, the second from a path with a
\* '/' in the image name, and the files went to the file removal
C29_Witness ==
    /\ loop_pc # "off"
    /\ cleaner.pc = "sent"
    /\ cleaner.result.ok
    /\ Range(cleaner.rmi_calls) = {"0a1b", "9f8e"}
    /\ \E k \in 1..Len(cleaner.items) :
          cleaner.items[k].path = "docker://9f8e/org/app:<none>"
    /\ cleaner.fs_calls # <<>>

\* C33: a press of n, q or Esc in Confirming, and every step that leads from
\* Confirming to Browsing, leaves results with every is_selected flag and the
\* cursor as they are, ends in Browsing, and starts no cleaner: the cleaner
\* thread, cleaning_rx and the cleaning channel are unchanged.
C33_CancelChangesNothing ==
    /\ [][(\E key \in {"n", "q", "Esc"} : KeyConfirming(key)) =>
            /\ state' = AppState("Browsing")
            /\ results' = results
            /\ list_state' = list_state
            /\ cleaner' = cleaner
            /\ cleaning_rx' = cleaning_rx
            /\ cleaning_chan' = cleaning_chan]_vars
    /\ [][(state.tag = "Confirming" /\ state'.tag = "Browsing") =>
            /\ results' = results
            /\ list_state' = list_state
            /\ cleaner' = cleaner
            /\ cleaning_rx' = "None"]_vars

\* C33 witness: the loop has handled a key and is back in Browsing with the
\* selection a confirmation was asked for, after an earlier clean of the
\* other category; no cleaner has been started since
C33_Witness ==
    /\ state.tag = "Browsing"
    /\ loop_pc = "tick"
    /\ cleaner.pc = "sent"
    /\ cleaning_rx = "None"
    /\ TotalSelectedSize(results) > 0
    /\ \E k \in 1..Len(results) : results[k].items = <<>>

\* the sum of the sizes of all items of the selected rows
SelectedItemBytes(rs) ==
    SumOver({k \in 1..Len(rs) : rs[k].is_selected},
            [k \in 1..Len(rs) |-> SumSizes(rs[k].items)])

\* C34: the items handed to the cleaner at the confirmation add up to
\* total_selected_size(), the sum of the sizes of all items of the selected
\* rows; a success message on the channel, and the message of Done after it
\* is received, name that byte count, whatever became of the single removals.
C34_MessageNamesSelectedSize ==
    /\ [][(state.tag = "Confirming" /\ state'.tag = "Cleaning") =>
            /\ SumSizes(cleaner'.items) = TotalSelectedSize(results)
            /\ TotalSelectedSize(results) = SelectedItemBytes(results)]_vars
    /\ [](\A j \in 1..Len(cleaning_chan) :
             cleaning_chan[j].ok =>
                cleaning_chan[j].msg =
                   "Successfully cleaned "
                      \o FormatSize(TotalSelectedSize(results)) \o "!")
    /\ [][(Tick /\ state.tag = "Cleaning" /\ cleaning_chan # <<>>
             /\ Head(cleaning_chan).ok) =>
            state' = Done("Successfully cleaned "
                            \o FormatSize(SelectedItemBytes(results)) \o "!")]_vars

\* C34 witness: Done shows the success message with the size of all items
\* handed over, while one of them, which could not be removed, is still on
\* the disk
C34_Witness ==
    /\ state.tag = "Done"
    /\ cleaner.pc = "sent"
    /\ cleaner.result.ok
    /\ SumSizes(cleaner.items) > 0
    /\ state.msg = "Successfully cleaned " \o FormatSize(SumSizes(cleaner.items)) \o "!"
    /\ \E k \in 1..Len(cleaner.items) : Exists(fs, cleaner.items[k].path)

\* the is_selected flags of the rows, in the order of the rows
SelectionOf(rs) == [k \in 1..Len(rs) |-> rs[k].is_selected]

\* C35: a step that changes an is_selected flag of a row is a key press in
\* Browsing or the tick that applies a cleaning result; a key press in
\* Cleaning changes nothing; so all through Cleaning the items of the selected
\* rows are the items the cleaner was given, and the rows a successful result
\* resets are exactly the rows that were selected at the confirmation.
C35_SelectionFixedWhileCleaning ==
    /\ [][(Len(results') = Len(results)
             /\ SelectionOf(results') # SelectionOf(results)) =>
            \/ state.tag = "Browsing" /\ loop_pc = "poll"
            \/ state.tag = "Cleaning" /\ state'.tag = "Done"]_vars
    /\ [][(\E key \in KeyCodes : KeyCleaning(key)) =>
            UNCHANGED <<results, list_state, state, cleaning_rx, cleaner,
                        cleaning_chan>>]_vars
    /\ [](state.tag = "Cleaning" =>
            /\ cleaner.pc # "idle"
            /\ cleaner.items = ItemsToDelete(results))
    /\ [][(state.tag = "Cleaning" /\ state'.tag = "Done"
             /\ Head(cleaning_chan).ok) =>
            \A k \in 1..Len(results) :
               IF results[k].is_selected
               THEN /\ results'[k].items = <<>>
                    /\ ~results'[k].is_selected
                    /\ \A i \in 1..Len(results[k].items) :
                          \E j \in 1..Len(cleaner.items) :
                             cleaner.items[j] = results[k].items[i]
               ELSE /\ results'[k] = results[k]
                    /\ \A i \in 1..Len(results[k].items) :
                          \A j \in 1..Len(cleaner.items) :
                             cleaner.items[j] # results[k].items[i]]_vars

\* C35 witness: in Cleaning, with the cleaner's result not yet sent, the loop
\* has taken a key press; one row is selected, one is not, and the cleaner
\* holds the items of the selected row
C35_Witness ==
    /\ state.tag = "Cleaning"
    /\ loop_pc = "tick"
    /\ cleaner.pc \in {"rmi", "fs"}
    /\ cleaner.i > 1
    /\ \E k \in 1..Len(results) : results[k].is_selected
    /\ \E k \in 1..Len(results) : ~results[k].is_selected /\ results[k].items # <<>>
    /\ cleaner.items = ItemsToDelete(results)

\* the cleaner thread has been spawned and has not ended
CleanerInFlight == cleaner.pc \in {"called", "rmi", "fs", "returned"}

\* C36: cleaning_rx is Some exactly when the state is Cleaning; it becomes
\* Some in the step from Confirming to Cleaning and None in the step from
\* Cleaning to Done; a cleaner thread runs only in Cleaning and one is
\* spawned only when none is running, so at most one is in flight, and at
\* most one result is on the cleaning channel.
C36_OneCleanerAndReceiver ==
    /\ [](/\ cleaning_rx = "Some" <=> state.tag = "Cleaning"
          /\ CleanerInFlight => state.tag = "Cleaning"
          /\ Len(cleaning_chan) <= 1
          /\ cleaning_chan # <<>> => cleaner.pc = "sent")
    /\ [][(cleaning_rx' # cleaning_rx) =>
            \/ /\ cleaning_rx' = "Some"
               /\ state.tag = "Confirming" /\ state'.tag = "Cleaning"
            \/ /\ cleaning_rx' = "None"
               /\ state.tag = "Cleaning" /\ state'.tag = "Done"]_vars
    /\ [][(cleaner' # cleaner /\ cleaner'.pc = "called") =>
            /\ ~CleanerInFlight
            /\ cleaning_rx = "None" /\ cleaning_rx' = "Some"]_vars

\* C36 witness: both categories were scanned with items; a second cleaner,
\* started after the first one's result emptied a row, has sent its result,
\* which waits on the channel in Cleaning
C36_Witness ==
    /\ docker.available /\ allowlist = <<>>
    /\ state.tag = "Cleaning"
    /\ cleaning_rx = "Some"
    /\ cleaner.pc = "sent"
    /\ Len(cleaning_chan) = 1
    /\ \E k \in 1..Len(results) : results[k].items = <<>> /\ ~results[k].is_selected
    /\ \E k \in 1..Len(results) : results[k].items # <<>> /\ results[k].is_selected

\* C37: in the step from Scanning to Browsing every scan task has ended, and
\* the items_count of each category is the number of progress callbacks its
\* task invoked; the counts stay so afterwards.
C37_NoProgressLost ==
    /\ [][(state.tag = "Scanning" /\ state'.tag = "Browsing") =>
            /\ DOMAIN scan_progress' = Range(Categories)
            /\ \A c \in Range(Categories) :
                  /\ task[c].pc = "done"
                  /\ scan_progress'[c].items_count = task[c].sent
                  /\ \E ord \in ListingOrders :
                        task[c].sent =
                           ScanCategory(c, fs, allowlist, docker, ord).callbacks]_vars
    /\ [](state.tag \notin {"Scanning"} =>
            \A c \in Range(Categories) :
               scan_progress[c].items_count = task[c].sent)

\* C37 witness: the scan has just completed; three callbacks of the Downloads
\* task and two of the DockerImages task have been counted
C37_Witness ==
    /\ state.tag = "Browsing"
    /\ loop_pc = "poll"
    /\ cleaner.pc = "idle"
    /\ task["Downloads"].sent = 3
    /\ scan_progress["Downloads"].items_count = 3
    /\ task["DockerImages"].sent = 2
    /\ scan_progress["DockerImages"].items_count = 2

\* C38: outside Scanning scan_rx is None, no scan update waits on the channel
\* and every scan task has ended; a step taken outside Scanning does not lead
\* to Scanning, leaves scan_progress and the rows' categories as they are,
\* and changes results only as a key press in Browsing or as the tick that
\* applies a cleaning result.
C38_ScanningIsLeftForGood ==
    /\ [](state.tag # "Scanning" =>
            /\ scan_rx = "None"
            /\ scan_chan = <<>>
            /\ \A c \in DOMAIN task : task[c].pc = "done")
    /\ [][state.tag # "Scanning" =>
            /\ state'.tag # "Scanning"
            /\ scan_rx' = "None"
            /\ scan_progress' = scan_progress
            /\ CategoriesOf(results') = CategoriesOf(results)
            /\ results' # results =>
                  \/ state.tag = "Browsing" /\ loop_pc = "poll"
                  \/ state.tag = "Cleaning" /\ state'.tag = "Done"]_vars

\* C38 witness: long after the scan, in Confirming after an earlier clean,
\* the receiver is gone and the progress map is as the scan left it
C38_Witness ==
    /\ state.tag = "Confirming"
    /\ cleaner.pc = "sent"
    /\ scan_rx = "None"
    /\ \A c \in Range(Categories) :
          scan_progress[c].status = "Done" /\ scan_progress[c].items_count >= 2

\* C39: once the scan has completed with rows, the cursor is Some(i) with
\* i < results.len(); a next key moves it to (i + 1) mod len and a previous
\* key to (i - 1) mod len, both leaving results with every is_selected flag
\* as they are; next after previous and previous after next give the cursor
\* back, for the rows of the state and for every cursor of every list of up
\* to NumCategories + 2 rows.
C39_CursorWrapsBothWays ==
    /\ [](state.tag # "Scanning" /\ results # <<>> =>
            /\ list_state # <<>>
            /\ list_state[1] \in 0..(Len(results) - 1)
            /\ PreviousSelected(NextSelected(list_state, Len(results)),
                                Len(results)) = list_state
            /\ NextSelected(PreviousSelected(list_state, Len(results)),
                            Len(results)) = list_state)
    /\ [](\A len \in 1..(NumCategories + 2) : \A i \in 0..(len - 1) :
            /\ NextSelected(<<i>>, len) = <<(i + 1) % len>>
            /\ PreviousSelected(<<i>>, len) = <<(i + len - 1) % len>>
            /\ PreviousSelected(NextSelected(<<i>>, len), len) = <<i>>
            /\ NextSelected(PreviousSelected(<<i>>, len), len) = <<i>>)
    /\ [][(\E key \in {"Down", "j"} : KeyBrowsing(key)) =>
            /\ list_state' = <<(list_state[1] + 1) % Len(results)>>
            /\ results' = results]_vars
    /\ [][(\E key \in {"Up", "k"} : KeyBrowsing(key)) =>
            /\ list_state' = <<(list_state[1] + Len(results) - 1) % Len(results)>>
            /\ results' = results]_vars

\* C39 witness: in Browsing a key has moved the cursor to the last row, with
\* the first row selected
C39_Witness ==
    /\ state.tag = "Browsing"
    /\ loop_pc = "tick"
    /\ Len(results) >= 2
    /\ list_state = <<Len(results) - 1>>
    /\ results[1].is_selected
    /\ ~results[Len(results)].is_selected

-----------------------------------------------------------------------------
(* Allowlist::is_allowed called on its own, as the test of allowlist.rs does *)

\* longest rule list given to Allowlist::new
MaxRules == 2

\* the rules of the lists; a rule is a String
RuleUniverse ==
    { "/Users/x/Keep", "/Users/test/Secret", "/Users/test/Projects/Keep",
      "/Users/x/K" \o ReplacementChar, "" }

\* the paths asked about; the last has a byte that is not UTF-8
PathUniverse ==
    { "/Users/x/Keep", "/Users/x/KeepExtra", "/Users/x/Keep/a.bin", "/Users/x",
      "/Users/test/Secret", "/Users/test/Secret/file.txt",
      "/Users/test/Projects/Keep", "/Users/test/Projects/DeleteMe",
      "/Users/test/Public", "/Users/x/K" \o ReplacementChar,
      "/Users/x/K" \o InvalidByte }

\* most lines of the allowlist file
MaxLines == 2

\* what reader.lines() yields for a line: its text, or an error of the read
\* (an I/O error, or a line that is not UTF-8)
Line(text) == [ok |-> TRUE, text |-> text]
ReadError == [ok |-> FALSE, text |-> ""]

LineUniverse ==
    { Line("/Users/x/Keep"), Line("  /Users/test/Secret "), Line("# /Users/x"),
      Line("  # /Users/x/Keep"), Line(""), Line("   "), ReadError }

\* the configurations Allowlist::load may meet: no configuration directory,
\* no file, a file that cannot be opened, a file that is read line by line
ConfigChoices ==
    { NoConfigDir,
      [config_dir |-> TRUE, exists |-> FALSE, open_ok |-> FALSE, lines |-> <<>>] }
    \cup { [config_dir |-> TRUE, exists |-> TRUE, open_ok |-> o, lines |-> ls] :
              o \in BOOLEAN, ls \in SeqsUpTo(LineUniverse, MaxLines) }

RECURSIVE RulesOfLinesTestUntrimmed(_)
\* a mutation of the line filter: the line as read, not the trimmed line, is
\* tested for emptiness and for the comment mark
RulesOfLinesTestUntrimmed(lines) ==
    IF lines = <<>> THEN <<>>
    ELSE IF ~Head(lines).ok THEN <<>>
    ELSE LET line == Head(lines).text
         IN  IF line # "" /\ ~StartsWith(line, "#")
             THEN <<Trim(line)>> \o RulesOfLinesTestUntrimmed(Tail(lines))
             ELSE RulesOfLinesTestUntrimmed(Tail(lines))

RECURSIVE RulesOfLinesPushesLine(_)
\* a mutation of the push: the line as read becomes the rule
RulesOfLinesPushesLine(lines) ==
    IF lines = <<>> THEN <<>>
    ELSE IF ~Head(lines).ok THEN <<>>
    ELSE LET trimmed == Trim(Head(lines).text)
         IN  IF trimmed # "" /\ ~StartsWith(trimmed, "#")
             THEN <<Head(lines).text>> \o RulesOfLinesPushesLine(Tail(lines))
             ELSE RulesOfLinesPushesLine(Tail(lines))

RECURSIVE RulesOfLines(_)
\* allowlist.rs:25-31: the lines up to the first error of the read
\* (map_while(Result::ok)), trimmed (line.trim()), without the empty ones and
\* the comments
RulesOfLines(lines) ==
    IF lines = <<>> THEN <<>>
    ELSE IF ~Head(lines).ok THEN <<>>
    ELSE LET trimmed == Trim(Head(lines).text)
         IN  IF trimmed # "" /\ ~StartsWith(trimmed, "#")
             THEN <<trimmed>> \o RulesOfLines(Tail(lines))
             ELSE RulesOfLines(Tail(lines))

\* allowlist.rs:16-36 Allowlist::load: the rules of the value it returns
AllowlistLoad(config) ==
    IF config.config_dir /\ config.exists /\ config.open_ok
    THEN RulesOfLines(config.lines)
    ELSE <<>>

InitAllowlist ==
    /\ AppIdle /\ ScIdle
    /\ cleaner = CleanerIdle
    /\ allowlist = <<>>
    /\ fs = Disk
    /\ locked = {}
    /\ docker = DockerMissing
    /\ \/ \E rules \in SeqsUpTo(RuleUniverse, MaxRules) :
             al = [pc |-> "new", rules |-> AllowlistNew(rules), path |-> "",
                   answer |-> FALSE, loaded |-> FALSE, config |-> NoConfigDir]
       \/ \E config \in ConfigChoices :
             al = [pc |-> "start", rules |-> <<>>, path |-> "",
                   answer |-> FALSE, loaded |-> FALSE, config |-> config]

\* a call of Allowlist::load in the configuration of the start
LoadAllowlist ==
    /\ al.pc = "start"
    /\ al' = [al EXCEPT !.pc = "new", !.rules = AllowlistLoad(al.config),
                        !.loaded = TRUE]
    /\ UNCHANGED <<appVars, chanVars, task, cleaner, envVars, sc>>

\* a call of is_allowed on the allowlist
AllowlistIsAllowed ==
    /\ al.pc \in {"new", "answered"}
    /\ \E path \in PathUniverse :
          al' = [al EXCEPT !.pc = "answered", !.path = path,
                           !.answer = IsAllowed(al.rules, path)]
    /\ UNCHANGED <<appVars, chanVars, task, cleaner, envVars, sc>>

NextAllowlist == LoadAllowlist \/ AllowlistIsAllowed

SpecAllowlist == InitAllowlist /\ [][NextAllowlist]_vars

\* the bytes of s start with the bytes of t: unit by unit, where the units
\* are the characters and the invalid bytes
BytesStartWith(s, t) ==
    /\ Len(t) <= Len(s)
    /\ \A j \in 1..Len(t) : CharAt(s, j) = CharAt(t, j)

\* the text of a path: the path with U+FFFD in the place of every invalid byte
LossyText(p) ==
    IF \E j \in 1..Len(p) : CharAt(p, j) = InvalidByte
    THEN CHOOSE t \in PathUniverse :
            /\ Len(t) = Len(p)
            /\ \A j \in 1..Len(p) :
                  CharAt(t, j) = IF CharAt(p, j) = InvalidByte
                                 THEN ReplacementChar ELSE CharAt(p, j)
    ELSE p

\* C9, as stated: is_allowed(P) is true if and only if some rule R has
\* P == R or the bytes of P starting with the bytes of R.
C9_BytePrefixOfPath ==
    al.pc = "answered" =>
       (al.answer <=>
          \E i \in 1..Len(al.rules) :
             al.path = al.rules[i] \/ BytesStartWith(al.path, al.rules[i]))

\* C9: is_allowed(P) is true if and only if some rule R equals the lossy
\* UTF-8 text of P or is a byte prefix of that text; for a path that is valid
\* UTF-8 the text is the path itself, so the rule "/Users/x/Keep" matches
\* "/Users/x/KeepExtra"; an empty rule list allows no path.
C9_BytePrefixOfLossyText ==
    al.pc = "answered" =>
       /\ al.answer <=>
             \E i \in 1..Len(al.rules) :
                \/ LossyText(al.path) = al.rules[i]
                \/ BytesStartWith(LossyText(al.path), al.rules[i])
       /\ (\A j \in 1..Len(al.path) : CharAt(al.path, j) # InvalidByte) =>
             (al.answer <=>
                \E i \in 1..Len(al.rules) :
                   al.path = al.rules[i] \/ BytesStartWith(al.path, al.rules[i]))
       /\ ("/Users/x/Keep" \in Range(al.rules) /\ al.path = "/Users/x/KeepExtra")
             => al.answer
       /\ al.rules = <<>> => ~al.answer

\* C9 witness: the rule "/Users/x/Keep" has matched "/Users/x/KeepExtra"
C9_Witness ==
    /\ al.pc = "answered"
    /\ al.rules = <<"/Users/x/Keep">>
    /\ al.path = "/Users/x/KeepExtra"
    /\ al.answer

\* Allowlist::load met a missing configuration, or an error of the open or of
\* the read
LoadMetError(config) ==
    \/ ~config.config_dir
    \/ ~config.exists
    \/ ~config.open_ok
    \/ \E j \in 1..Len(config.lines) : ~config.lines[j].ok

\* C20, as stated: Allowlist::load returns in every configuration, and when
\* the file is missing or the open or the read gives an error the allowlist
\* it returns has no rule: is_allowed is false for every path.
C20_EmptyOnMissingOrError ==
    /\ al.pc = "start" => ENABLED LoadAllowlist
    /\ (al.loaded /\ LoadMetError(al.config)) =>
          /\ al.rules = <<>>
          /\ \A path \in PathUniverse : ~IsAllowed(al.rules, path)
          /\ al.pc = "answered" => ~al.answer

\* C20, the failing case reached: the read gave an error on the second line,
\* the rule of the first line is kept and is_allowed answers true
C20_PartialAllowlist ==
    /\ al.loaded
    /\ al.pc = "answered"
    /\ al.config.open_ok
    /\ al.config.lines = <<Line("/Users/x/Keep"), ReadError>>
    /\ al.rules = <<"/Users/x/Keep">>
    /\ al.path = "/Users/x/Keep/a.bin"
    /\ al.answer

\* C21: no rule of a loaded allowlist is the empty string or starts with '#',
\* whatever the lines of the file.
C21_NoBlankOrCommentRule ==
    al.loaded =>
       \A i \in 1..Len(al.rules) :
          /\ al.rules[i] # ""
          /\ ~StartsWith(al.rules[i], "#")

\* C21 witness: a file with an indented comment and a rule between blanks has
\* been loaded, and only the rule is kept
C21_Witness ==
    /\ al.loaded
    /\ al.config.open_ok
    /\ al.config.lines = <<Line("  # /Users/x/Keep"), Line("  /Users/test/Secret ")>>
    /\ al.rules = <<"/Users/test/Secret">>

\* the lines the read yields before its first error
LinesRead(lines) ==
    LET errs == {k \in 1..Len(lines) : ~lines[k].ok}
    IN  IF errs = {} THEN lines
        ELSE SubSeq(lines, 1, (CHOOSE k \in errs : \A h \in errs : k <= h) - 1)

\* the text of a line without the blanks around it, read off the positions of
\* its first and last character that is no blank
TrimmedText(text) ==
    LET inked == {k \in 1..Len(text) : CharAt(text, k) # " "}
    IN  IF inked = {} THEN ""
        ELSE SubSeq(text, CHOOSE k \in inked : \A h \in inked : k <= h,
                          CHOOSE k \in inked : \A h \in inked : k >= h)

\* the rules of a list of lines: the trimmed texts of the lines the test
\* keeps, in the order of the lines
RulesWhere(lines, Keeps(_)) ==
    LET kept == SelectSeq(lines, Keeps)
    IN  [k \in 1..Len(kept) |-> TrimmedText(kept[k].text)]

\* C31, as stated: every line that is not blank and does not start with '#'
\* becomes the rule of its trimmed text, in file order, a line of blanks and
\* then '#' included.
C31_EveryUnprefixedLineIsRule ==
    (al.loaded /\ al.config.config_dir /\ al.config.exists /\ al.config.open_ok) =>
       al.rules = RulesWhere(LinesRead(al.config.lines),
                             LAMBDA l : /\ TrimmedText(l.text) # ""
                                        /\ CharAt(l.text, 1) # "#")

\* C31, amended: every line read before the first error whose trimmed text is
\* not empty and does not start with '#' becomes the rule of its trimmed
\* text, in file order, and no other line becomes a rule: a line of blanks
\* and then '#' is skipped as a comment.
C31_EveryUncommentedLineIsRule ==
    (al.loaded /\ al.config.config_dir /\ al.config.exists /\ al.config.open_ok) =>
       al.rules = RulesWhere(LinesRead(al.config.lines),
                             LAMBDA l : /\ TrimmedText(l.text) # ""
                                        /\ CharAt(TrimmedText(l.text), 1) # "#")

\* C31 witness: a file of a rule between blanks and an indented comment has
\* been loaded; the rule is kept trimmed and the comment is skipped
C31_Witness ==
    /\ al.loaded
    /\ al.config.open_ok
    /\ al.config.lines = <<Line("  /Users/test/Secret "), Line("  # /Users/x/Keep")>>
    /\ al.rules = <<"/Users/test/Secret">>

-----------------------------------------------------------------------------
(* The scanners called on their own (src/scanner/mod.rs, user.rs, dev.rs,
   docker.rs) *)

\* constants.rs
LIBRARY_CACHES == "Library/Caches"
VAR_LOG == "/private/var/log"
SYSTEM_LIBRARY_LOGS == "/Library/Logs"
GOOGLE_CHROME_CACHE == "Library/Caches/Google/Chrome"
SAFARI_CACHE == "Library/Caches/com.apple.Safari"
FIREFOX_CACHE == "Library/Caches/Firefox"
DESKTOP_DIR == "Desktop"

TRASH_DIR == ".Trash"
SYSTEM_LIBRARY_CACHES == "/Library/Caches"

\* user.rs:13-29 system_logs_scanner: the roots that exist
SystemLogsScannerPaths(f) ==
    (IF Exists(f, SYSTEM_LIBRARY_LOGS) THEN <<SYSTEM_LIBRARY_LOGS>> ELSE <<>>)
    \o (IF Exists(f, VAR_LOG) THEN <<VAR_LOG>> ELSE <<>>)

RECURSIVE FlatMapScanPath(_, _, _, _)
\* user.rs:78-84: scan_path of every container cache, the items collected in
\* the order of the caches
FlatMapScanPath(f, rules, paths, ord) ==
    IF paths = <<>> THEN [items |-> <<>>, callbacks |-> 0]
    ELSE LET one == ScanPath(f, rules, Head(paths), ord)
             rest == FlatMapScanPath(f, rules, Tail(paths), ord)
         IN  [items |-> one.items \o rest.items,
              callbacks |-> one.callbacks + rest.callbacks]

\* user.rs:53-97 UserCacheScanner::scan
UserCacheScannerScan(f, rules, ord) ==
    LET path == Join(Home, LIBRARY_CACHES)
        scanned == ScanPath(f, rules, path, ord)
        retained ==
            SelectSeq(scanned.items, LAMBDA item :
                /\ ~Contains(ToStringLossy(item.path), GOOGLE_CHROME_CACHE)
                /\ ~Contains(ToStringLossy(item.path), SAFARI_CACHE)
                /\ ~Contains(ToStringLossy(item.path), FIREFOX_CACHE))
        containers_path == Join(Home, "Library/Containers")
        container_caches ==
            SelectSeq(MapSeq(ReadDir(f, containers_path, ord),
                             LAMBDA e : Join(e, "Data/Library/Caches")),
                      LAMBDA q : Exists(f, q))
        container == IF Exists(f, containers_path)
                     THEN FlatMapScanPath(f, rules, container_caches, ord)
                     ELSE [items |-> <<>>, callbacks |-> 0]
    IN  [result |-> ScanResult("UserCache", retained \o container.items),
         callbacks |-> scanned.callbacks + container.callbacks]

\* browsers.rs:7-46 scan_browser_cache: scan_path of each browser cache that
\* exists, Chrome, Safari, Firefox, the items appended in that order
ScanBrowserCache(f, rules, ord) ==
    LET chrome_path == Join(Home, GOOGLE_CHROME_CACHE)
        safari_path == Join(Home, SAFARI_CACHE)
        firefox_path == Join(Home, FIREFOX_CACHE)
        present == SelectSeq(<<chrome_path, safari_path, firefox_path>>,
                             LAMBDA q : Exists(f, q))
        all == FlatMapScanPath(f, rules, present, ord)
    IN  [result |-> ScanResult("BrowserCache", all.items),
         callbacks |-> all.callbacks]

\* user.rs:113-135 ScreenCaptureScanner::scan; the second prefix of the code
\* is the Japanese word for screenshot, written here in Latin letters
ScreenCaptureScannerScan(f, rules, ord) ==
    LET path == Join(Home, DESKTOP_DIR)
        scanned == IF Exists(f, path) THEN ScanPath(f, rules, path, ord)
                   ELSE [total_size |-> 0, items |-> <<>>, callbacks |-> 0]
        items ==
            SelectSeq(scanned.items, LAMBDA i :
                LET name == ToStringLossy(FileName(i.path))
                IN  StartsWith(name, "Screenshot") \/ StartsWith(name, "sukurinshotto"))
    IN  [result |-> ScanResult("ScreenCapture", items),
         callbacks |-> scanned.callbacks]

\* largest size of a file of the scanned disk
MaxSize == 2

\* the entries of the scanned disk, in one listing order
ScanEntries(a, b) ==
    << <<SYSTEM_LIBRARY_LOGS, Dir>>,
       <<Join(SYSTEM_LIBRARY_LOGS, "a.log"), File(a)>>,
       <<VAR_LOG, Dir>>,
       <<Join(VAR_LOG, "b.log"), File(b)>>,
       <<Downloads, Dir>>,
       <<Join(Downloads, "f.zip"), File(a)>>,
       <<Join(Downloads, "g.zip"), File(b)>>,
       <<Join(Home, DESKTOP_DIR), Dir>>,
       <<Join(Join(Home, DESKTOP_DIR), "Screenshot 1.png"), File(a)>>,
       <<Join(Join(Home, DESKTOP_DIR), "Screenshot 2.png"), File(b)>>,
       <<Join(Join(Home, DESKTOP_DIR), "notes.txt"), File(3)>>,
       <<Join(Home, PROJECTS_DIR), Dir>>,
       <<Join(Join(Home, PROJECTS_DIR), "p"), Dir>>,
       <<Join(Join(Home, PROJECTS_DIR), "p/node_modules"), Dir>>,
       <<Join(Join(Home, PROJECTS_DIR), "p/node_modules/m.js"), File(a)>>,
       <<Join(Join(Home, PROJECTS_DIR), "q"), Dir>>,
       <<Join(Join(Home, PROJECTS_DIR), "q/node_modules"), Dir>>,
       <<Join(Join(Home, PROJECTS_DIR), "q/node_modules/n.js"), File(b)>>,
       <<Join(Home, LIBRARY_CACHES), Dir>>,
       <<Join(Join(Home, LIBRARY_CACHES), "app"), File(a)>>,
       <<Join(Home, SAFARI_CACHE), Dir>>,
       <<Join(Join(Home, SAFARI_CACHE), "Cache.db"), File(3)>>,
       <<Join(Home, "Library/Caches/Google"), Dir>>,
       <<Join(Home, GOOGLE_CHROME_CACHE), Dir>>,
       <<Join(Join(Home, GOOGLE_CHROME_CACHE), "Default"), Dir>>,
       <<Join(Join(Home, GOOGLE_CHROME_CACHE), "Default/data_0"), File(a)>>,
       <<Join(Home, FIREFOX_CACHE), Dir>>,
       <<Join(Join(Home, FIREFOX_CACHE), "Profiles"), File(b)>>,
       <<Join(Home, "Library/Containers"), Dir>>,
       <<Join(Home, "Library/Containers/one"), Dir>>,
       <<Join(Home, "Library/Containers/one/Data/Library/Caches"), Dir>>,
       <<Join(Home, "Library/Containers/one/Data/Library/Caches/c"), File(b)>>,
       <<Join(Home, TRASH_DIR), Dir>>,
       <<Join(Home, "Work"), Dir>>,
       <<Join(Home, "Work/node_modules"), Dir>>,
       <<Join(Home, "Work/node_modules/w.js"), File(a)>>,
       <<Join(Home, "Work/a"), Dir>>,
       <<Join(Home, "Work/a/b"), Dir>>,
       <<Join(Home, "Work/a/b/c"), Dir>>,
       <<Join(Home, "Work/a/b/c/d"), Dir>>,
       <<Join(Home, "Work/a/b/c/d/node_modules"), Dir>>,
       <<Join(Home, "Work/a/b/c/d/node_modules/v.js"), File(b)>>,
       <<Join(Home, "Work/a/b/c/d/e"), Dir>>,
       <<Join(Home, "Work/a/b/c/d/e/node_modules"), Dir>>,
       <<Join(Home, "Work/.cache"), Dir>>,
       <<Join(Home, "Work/.cache/node_modules"), Dir>>,
       <<Join(Home, "Work/.cache/node_modules/h.js"), File(3)>>,
       <<Join(Home, "Work/f"), Dir>>,
       <<Join(Home, "Work/f/node_modules"), File(3)>>,
       <<Join(Home, "Mono"), Dir>>,
       <<Join(Home, "Mono/node_modules"), Dir>>,
       <<Join(Home, "Mono/node_modules/top.js"), File(a)>>,
       <<Join(Home, "Mono/node_modules/dep"), Dir>>,
       <<Join(Home, "Mono/node_modules/dep/node_modules"), Dir>>,
       <<Join(Home, "Mono/node_modules/dep/node_modules/i.js"), File(b)>> >>

\* the scanned disk
ScanDisk(a, b) ==
    LET es == ScanEntries(a, b)
    IN  [q \in {es[k][1] : k \in 1..Len(es)} |->
            es[CHOOSE k \in 1..Len(es) : es[k][1] = q][2]]

\* the orders in which the directories of the scanned disk may list
ScanListing == [k \in 1..Len(ScanEntries(1, 1)) |-> ScanEntries(1, 1)[k][1]]

ScanListingOrders == {ScanListing, Reverse(ScanListing)}

\* what "docker images" may list
ScanDockerChoices ==
    { DockerRunning, DockerMissing,
      [available |-> TRUE, images |-> Reverse(DockerImages)] }

\* the allowlists of the scans: none, a child of a fixed root, and a match of
\* the recursive search together with the prefix of an image's synthetic path
ScanAllowlistChoices ==
    { <<>>,
      <<Join(Downloads, "f.zip")>>,
      <<Join(Join(Home, PROJECTS_DIR), "p/node_modules"), DockerScheme \o "0a1b">> }

InitScanner ==
    /\ AppIdle /\ AlIdle
    /\ cleaner = CleanerIdle
    /\ locked = {}
    /\ allowlist \in ScanAllowlistChoices
    /\ \E a \in 1..MaxSize, b \in 1..MaxSize : fs = ScanDisk(a, b)
    /\ docker \in ScanDockerChoices
    /\ sc = [pc |-> "ready", variant |-> "", result |-> <<>>]

\* the scan of one variant has returned its ScanResult
Scanned(variant, scan) ==
    /\ sc.pc = "ready"
    /\ sc' = [pc |-> "scanned", variant |-> variant, result |-> scan.result]
    /\ UNCHANGED <<appVars, chanVars, task, cleaner, envVars, al>>

\* PathScanner::scan with one root (Downloads, mod.rs:86-90)
ScanFixedOneRoot ==
    \E ord \in ScanListingOrders :
       Scanned("fixed-one",
               PathScannerScan("Downloads", fs, allowlist, <<Downloads>>, ord))

\* PathScanner::scan with several roots (SystemLogs, mod.rs:72)
ScanFixedSeveralRoots ==
    \E ord \in ScanListingOrders :
       Scanned("fixed-several",
               PathScannerScan("SystemLogs", fs, allowlist,
                               SystemLogsScannerPaths(fs), ord))

\* NodeModulesScanner::scan
ScanRecursiveName ==
    \E ord \in ScanListingOrders :
       Scanned("recursive-name", NodeModulesScannerScan(fs, allowlist, ord))

\* UserCacheScanner::scan
ScanUserCache ==
    \E ord \in ScanListingOrders :
       Scanned("user-cache", UserCacheScannerScan(fs, allowlist, ord))

\* ScreenCaptureScanner::scan
ScanScreenCapture ==
    \E ord \in ScanListingOrders :
       Scanned("screen-capture", ScreenCaptureScannerScan(fs, allowlist, ord))

\* DockerScanner::scan
ScanDockerImages == Scanned("container-image", DockerScannerScan(docker, allowlist))

\* the numerals of the size strings: text, and the number it writes as
\* num / den (num -1 for a text that writes no number)
SizeNumerals ==
    { [text |-> "0", num |-> 0, den |-> 1],
      [text |-> "1", num |-> 1, den |-> 1],
      [text |-> "500", num |-> 500, den |-> 1],
      [text |-> "1.5", num |-> 3, den |-> 2],
      [text |-> "0.25", num |-> 1, den |-> 4],
      [text |-> "", num |-> -1, den |-> 1],
      [text |-> "abc", num |-> -1, den |-> 1] }

\* the unit suffixes of the size strings, with their multiplier (0 for a
\* suffix that is no unit of parse_docker_size)
SizeUnits ==
    { [text |-> "B", mult |-> 1], [text |-> "b", mult |-> 1],
      [text |-> "KB", mult |-> 1024], [text |-> "kB", mult |-> 1024],
      [text |-> "MB", mult |-> 1048576], [text |-> "mb", mult |-> 1048576],
      [text |-> "GB", mult |-> 1073741824], [text |-> "Gb", mult |-> 1073741824],
      [text |-> "", mult |-> 0], [text |-> "TB", mult |-> 0] }

\* the size strings handed to parse_docker_size: a numeral and a suffix, plain
\* or between blanks; 500 units of 1024^3 bytes are left out (the product does
\* not fit the integers of the model checker)
SizeInputs ==
    { [numeral |-> n, unit |-> u, size_str |-> pad \o n.text \o u.text \o pad] :
        n \in {m \in SizeNumerals : m.num < 500},
        u \in SizeUnits, pad \in {"", " "} }
    \cup { [numeral |-> n, unit |-> u, size_str |-> n.text \o u.text] :
              n \in {m \in SizeNumerals : m.num = 500},
              u \in {v \in SizeUnits : v.mult < 1073741824} }

\* a call of parse_docker_size
ScanParseDockerSize ==
    /\ sc.pc = "ready"
    /\ \E in \in SizeInputs :
          sc' = [pc |-> "parsed", variant |-> "parse_docker_size",
                 result |-> [input |-> in, size |-> ParseDockerSize(in.size_str)]]
    /\ UNCHANGED <<appVars, chanVars, task, cleaner, envVars, al>>

\* PathScanner::scan of a category whose only root is absent (SystemCache,
\* mod.rs:74-78, on a disk without /Library/Caches)
ScanFixedAbsentRoots ==
    \E ord \in ScanListingOrders :
       Scanned("fixed-absent",
               PathScannerScan("SystemCache", fs, allowlist,
                               <<SYSTEM_LIBRARY_CACHES>>, ord))

\* the paths scan_path is called on: a directory of two subdirectories, a
\* directory of files, an empty directory, a path that does not exist, and a
\* file, whose listing fails
ScanPathTargets ==
    { Join(Home, PROJECTS_DIR), Downloads, Join(Home, TRASH_DIR),
      Join(Home, "Missing"), Join(Downloads, "f.zip") }

\* a call of scan_path
ScanPathCall ==
    /\ sc.pc = "ready"
    /\ \E target_path \in ScanPathTargets, ord \in ScanListingOrders :
          LET got == ScanPath(fs, allowlist, target_path, ord)
          IN  sc' = [pc |-> "scan_path", variant |-> target_path,
                     result |-> [total_size |-> got.total_size, items |-> got.items]]
    /\ UNCHANGED <<appVars, chanVars, task, cleaner, envVars, al>>

\* the roots scan_recursive_for_target is called on: ~/Projects with one
\* match in each of two projects, ~/Work with matches at depth 1, 5 and 6,
\* one below a hidden directory and a file of the target's name, and ~/Mono
\* with a match that holds a dependency with a match of its own
ScanRecursiveRoots ==
    { Join(Home, PROJECTS_DIR), Join(Home, "Work"), Join(Home, "Mono") }

\* a call of scan_recursive_for_target
ScanRecursiveCall ==
    /\ sc.pc = "ready"
    /\ \E root_path \in ScanRecursiveRoots, ord \in ScanListingOrders :
          LET got == ScanRecursiveForTarget(fs, allowlist, root_path, NODE_MODULES, ord)
          IN  sc' = [pc |-> "scan_recursive", variant |-> root_path,
                     result |-> [items |-> got.items]]
    /\ UNCHANGED <<appVars, chanVars, task, cleaner, envVars, al>>

\* SystemTime::UNIX_EPOCH, in the time unit of the model
UNIX_EPOCH == 0

\* an entry as calculate_item_stats meets it: its kind, length and
\* modification time, whether its metadata can be read, and for a directory
\* whether it can be listed
StatsEntry(kind, size, mtime, meta_ok, list_ok) ==
    [kind |-> kind, size |-> size, mtime |-> mtime, meta_ok |-> meta_ok,
     list_ok |-> list_ok]

\* the names of the tree of the calls: a file, a hidden file, and a
\* directory with a file in it
StatsNames == {"/t", "/t/a.bin", "/t/.hidden", "/t/sub", "/t/sub/deep.bin"}

\* the tree with files of a, 1 and b bytes; the entry late was modified last,
\* the metadata of the entry unread ("" for none) cannot be read, and the
\* directory /t/sub can be listed or not
StatsTree(a, b, late, unread, listable) ==
    LET E(name, kind, size, mtime) ==
            StatsEntry(kind, size, IF late = name THEN 9 ELSE mtime,
                       unread # name, kind = "dir" /\ (name = "/t/sub" => listable))
    IN  ("/t" :> E("/t", "dir", 0, 2))
        @@ ("/t/a.bin" :> E("/t/a.bin", "file", a, 1))
        @@ ("/t/.hidden" :> E("/t/.hidden", "file", 1, 3))
        @@ ("/t/sub" :> E("/t/sub", "dir", 0, 1))
        @@ ("/t/sub/deep.bin" :> E("/t/sub/deep.bin", "file", b, 4))

StatsTrees ==
    { StatsTree(a, b, late, unread, listable) :
        a \in 1..MaxSize, b \in 1..MaxSize, late \in StatsNames,
        unread \in {"", "/t/a.bin", "/t/sub", "/t/sub/deep.bin"},
        listable \in BOOLEAN }

\* the paths calculate_item_stats is called on: a directory, a file, a
\* directory inside, and a path that does not exist
StatsPaths == {"/t", "/t/a.bin", "/t/sub", "/t/missing"}

RECURSIVE StatsWalkSkipsHidden(_, _)
\* a mutation of the walk: skip_hidden(true)
StatsWalkSkipsHidden(tree, path) ==
    IF path \notin DOMAIN tree THEN {}
    ELSE {path} \cup
         (IF tree[path].kind = "dir" /\ tree[path].list_ok
          THEN UNION { StatsWalkSkipsHidden(tree, c) :
                          c \in {d \in Children(tree, path) :
                                    ~StartsWith(FileName(d), ".")} }
          ELSE {})

RECURSIVE StatsWalk(_, _)
\* utils.rs:82-86: the entries WalkDir::new(path).skip_hidden(false) yields and
\* flatten() lets through: the path, if it exists, and what is below every
\* directory that can be listed
StatsWalk(tree, path) ==
    IF path \notin DOMAIN tree THEN {}
    ELSE {path} \cup
         (IF tree[path].kind = "dir" /\ tree[path].list_ok
          THEN UNION { StatsWalk(tree, c) : c \in Children(tree, path) }
          ELSE {})

RECURSIVE StatsFold(_, _, _)
\* utils.rs:87-98: the body of the loop, entry after entry
StatsFold(tree, todo, acc) ==
    IF todo = {} THEN acc
    ELSE LET q == CHOOSE x \in todo : TRUE
             metadata == tree[q]
         IN  StatsFold(tree, todo \ {q},
                IF metadata.meta_ok
                THEN [size |-> acc.size
                                 + (IF metadata.kind = "file" THEN metadata.size ELSE 0),
                      modified |-> IF metadata.mtime > acc.modified
                                   THEN metadata.mtime ELSE acc.modified]
                ELSE acc)

\* utils.rs:71-105 calculate_item_stats with the modification time and with
\* entries that cannot be read; CalculateItemStats is its path and size on a
\* disk whose entries can all be read
CalculateItemStatsWalk(tree, path) ==
    LET modified == IF path \in DOMAIN tree /\ tree[path].meta_ok
                    THEN tree[path].mtime ELSE UNIX_EPOCH
        acc == StatsFold(tree, StatsWalk(tree, path),
                         [size |-> 0, modified |-> modified])
    IN  [path |-> path, size |-> acc.size, modified |-> acc.modified]

\* a call of calculate_item_stats
CalculateItemStatsCall ==
    /\ sc.pc = "ready"
    /\ \E tree \in StatsTrees, path \in StatsPaths :
          sc' = [pc |-> "stats", variant |-> path,
                 result |-> [tree |-> tree,
                             item |-> CalculateItemStatsWalk(tree, path)]]
    /\ UNCHANGED <<appVars, chanVars, task, cleaner, envVars, al>>

\* one scan pass over the two cache categories (app.rs:179-192 starts a task
\* for each category on the same disk): BrowserCache and UserCache
ScanCachePass ==
    /\ sc.pc = "ready"
    /\ \E ord \in ScanListingOrders :
          sc' = [pc |-> "scan_pass", variant |-> "caches",
                 result |->
                    [browser |-> ScanBrowserCache(fs, allowlist, ord).result,
                     user |-> UserCacheScannerScan(fs, allowlist, ord).result]]
    /\ UNCHANGED <<appVars, chanVars, task, cleaner, envVars, al>>

NextScanner ==
    \/ CalculateItemStatsCall
    \/ ScanCachePass
    \/ ScanParseDockerSize
    \/ ScanRecursiveCall
    \/ ScanFixedAbsentRoots
    \/ ScanPathCall
    \/ ScanFixedOneRoot
    \/ ScanFixedSeveralRoots
    \/ ScanRecursiveName
    \/ ScanUserCache
    \/ ScanScreenCapture
    \/ ScanDockerImages

SpecScanner == InitScanner /\ [][NextScanner]_vars

\* C10: the items of the ScanResult every scanner variant returns are ordered
\* by size descending.
C10_ItemsSortedBySizeDesc ==
    sc.pc = "scanned" =>
       \A k \in 1..(Len(sc.result.items) - 1) :
          sc.result.items[k].size >= sc.result.items[k + 1].size

\* C17: no item of the ScanResult a scanner variant returns has a path the
\* allowlist matches: children of fixed roots, matches of the recursive
\* search and images under their docker:// path alike.
C17_NoAllowlistedItem ==
    sc.pc = "scanned" =>
       \A k \in 1..Len(sc.result.items) :
          ~IsAllowed(allowlist, sc.result.items[k].path)

\* C17 witness: the recursive search has returned with one of its two matches
\* dropped by the allowlist
C17_Witness ==
    /\ sc.pc = "scanned"
    /\ sc.variant = "recursive-name"
    /\ IsAllowed(allowlist, Join(Join(Home, PROJECTS_DIR), "p/node_modules"))
    /\ Len(sc.result.items) = 1
    /\ sc.result.items[1].path = Join(Join(Home, PROJECTS_DIR), "q/node_modules")

\* (num / den) * mult truncated to an integer, computed without a product
\* larger than den * mult
TimesTruncated(num, den, mult) ==
    (num \div den) * mult + ((num % den) * mult) \div den

\* C22, as stated: for a numeral with one of the units B, KB, MB, GB in any
\* case the value is the number times the unit's multiplier, truncated; for
\* every other string it is 0.
C22_NumberTimesUnitTruncated ==
    sc.pc = "parsed" =>
       LET in == sc.result.input
       IN  sc.result.size =
              IF in.numeral.num >= 0 /\ in.unit.mult > 0
              THEN TimesTruncated(in.numeral.num, in.numeral.den, in.unit.mult)
              ELSE 0

\* C22, the failing case reached: "1.5B" has been parsed, and the value is 0
C22_FractionalBytes ==
    /\ sc.pc = "parsed"
    /\ sc.result.input.size_str = "1.5B"
    /\ sc.result.size = 0

\* the sizes of the regular files that are path or lie below it, summed
FileBytesUnder(f, path) ==
    SumOver({q \in DOMAIN f : f[q].kind = "file" /\ IsUnder(q, path)},
            [q \in DOMAIN f |-> f[q].size])

C24_NothingToScan ==
    /\ (sc.pc = "scan_path" /\ Children(fs, sc.variant) = {}) =>
          /\ sc.result.total_size = 0
          /\ sc.result.items = <<>>
    /\ (sc.pc = "scanned" /\ sc.variant = "fixed-absent") =>
          /\ sc.result.total_size = 0
          /\ sc.result.items = <<>>

\* C24 witness: scan_path of a file has returned
C24_Witness ==
    /\ sc.pc = "scan_path"
    /\ sc.variant = Join(Downloads, "f.zip")
    /\ Exists(fs, sc.variant)
    /\ sc.result = [total_size |-> 0, items |-> <<>>]

CountedIn(f, items) == UNION {Subtree(f, items[k].path) : k \in 1..Len(items)}

\* C30: after a scan pass no entry of the disk is counted both in the
\* BrowserCache result and in the UserCache result, as an item or below one.
C30_NoDoubleCount ==
    sc.pc = "scan_pass" =>
       CountedIn(fs, sc.result.browser.items)
          \cap CountedIn(fs, sc.result.user.items) = {}

\* C30 witness: a pass has counted the Safari and Firefox caches for
\* BrowserCache and not for UserCache, while the Chrome cache is counted for
\* both: for UserCache below the item ~/Library/Caches/Google
C30_ChromeCountedTwice ==
    /\ sc.pc = "scan_pass"
    /\ LET both == CountedIn(fs, sc.result.browser.items)
                      \cap CountedIn(fs, sc.result.user.items)
       IN  /\ Join(Join(Home, GOOGLE_CHROME_CACHE), "Default/data_0") \in both
           /\ \A q \in both : IsUnder(q, Join(Home, GOOGLE_CHROME_CACHE))
           /\ Join(Join(Home, SAFARI_CACHE), "Cache.db")
                 \in CountedIn(fs, sc.result.browser.items)
           /\ Join(Join(Home, FIREFOX_CACHE), "Profiles")
                 \in CountedIn(fs, sc.result.browser.items)
    /\ \E k \in 1..Len(sc.result.user.items) :
          sc.result.user.items[k].path = Join(Home, "Library/Caches/Google")

\* the latest modification time of the entries of S, the epoch for none
LatestOf(tree, S) ==
    IF S = {} THEN UNIX_EPOCH
    ELSE tree[CHOOSE q \in S : \A r \in S : tree[q].mtime >= tree[r].mtime].mtime

\* the entries of the subtree of path the walk gets to: those with every
\* directory from path down to their parent listable
ReachedBelow(tree, path) ==
    {q \in Subtree(tree, path) :
        \A d \in Subtree(tree, path) :
           (d # q /\ IsUnder(q, d)) => tree[d].list_ok}

\* C32, as stated: the call returns the sum of the sizes of all regular files
\* under the path whose metadata can be read, and the latest modification
\* time among the root and all descendants whose metadata can be read.
C32_AllReadableEntriesCounted ==
    sc.pc = "stats" =>
       LET tree == sc.result.tree
           readable == {q \in Subtree(tree, sc.variant) : tree[q].meta_ok}
       IN  /\ sc.result.item.size =
                 SumOver({q \in readable : tree[q].kind = "file"},
                         [q \in DOMAIN tree |-> tree[q].size])
           /\ sc.result.item.modified = LatestOf(tree, readable)

\* C32, amended: the call always returns; the size is the sum of the sizes of
\* the regular files, hidden ones included, that the walk reaches and whose
\* metadata can be read, the modification time is the latest among those of
\* the reached entries whose metadata can be read, the epoch if there is
\* none; what lies below a directory that cannot be listed is not reached.
C32_ReachedReadableEntriesCounted ==
    /\ sc.pc = "ready" => ENABLED CalculateItemStatsCall
    /\ sc.pc = "stats" =>
          LET tree == sc.result.tree
              counted == {q \in ReachedBelow(tree, sc.variant) : tree[q].meta_ok}
          IN  /\ sc.result.item.path = sc.variant
              /\ sc.result.item.size =
                    SumOver({q \in counted : tree[q].kind = "file"},
                            [q \in DOMAIN tree |-> tree[q].size])
              /\ sc.result.item.modified = LatestOf(tree, counted)

\* C32 witness: the call on /t has returned where /t/sub cannot be listed and
\* the file in it, readable and modified last, is left out; the hidden file
\* is counted
C32_Witness ==
    /\ sc.pc = "stats"
    /\ sc.variant = "/t"
    /\ LET tree == sc.result.tree
       IN  /\ ~tree["/t/sub"].list_ok
           /\ \A q \in DOMAIN tree : tree[q].meta_ok
           /\ tree["/t/sub/deep.bin"].mtime = 9
           /\ sc.result.item.size = tree["/t/a.bin"].size + tree["/t/.hidden"].size
           /\ sc.result.item.modified = 3

\* C40: in the result of the recursive search no item's path lies in the
\* subtree of another item, and the sizes of the items add up to the bytes of
\* the regular files below them, each file counted once.
C40_NoItemInsideAnother ==
    sc.pc = "scan_recursive" =>
       LET items == sc.result.items
       IN  /\ \A i, j \in 1..Len(items) :
                 i # j => ~IsUnder(items[i].path, items[j].path)
           /\ SumSizes(items) =
                 SumOver({q \in CountedIn(fs, items) : fs[q].kind = "file"},
                         [q \in DOMAIN fs |-> fs[q].size])

\* C40 witness: the search below ~/Mono has returned node_modules and the
\* node_modules of a dependency inside it; the file of the inner one is in
\* the size of both
C40_NestedCountedTwice ==
    /\ sc.pc = "scan_recursive"
    /\ sc.variant = Join(Home, "Mono")
    /\ Len(sc.result.items) = 2
    /\ sc.result.items[1].path = Join(Home, "Mono/node_modules")
    /\ sc.result.items[2].path = Join(Home, "Mono/node_modules/dep/node_modules")
    /\ sc.result.items[1].size =
          fs[Join(Home, "Mono/node_modules/top.js")].size
             + fs[Join(Home, "Mono/node_modules/dep/node_modules/i.js")].size
    /\ sc.result.items[2].size =
          fs[Join(Home, "Mono/node_modules/dep/node_modules/i.js")].size

====
